---- MODULE Spec2Model ----
(***************************************************************************)
(* Model of the primer cache layer: ManifestService (registry fetcher),   *)
(* PrimerCache (content cache), the meta store and the compact index.     *)
(* Every operation of the two services is one action; the origin, the     *)
(* clock and the user's hands on the cache directory are the environment. *)
(***************************************************************************)
EXTENDS Integers, Sequences, FiniteSets, TLC

\* ---------------------------------------------------------------- bounds
MaxVersion == 2   \* versions a file of the origin goes through
MaxClock == 1     \* ticks of the clock
MaxSteps == 3     \* operations and environment events in one run
MaxFaults == 1    \* failing requests and failing filesystem calls in one run
MaxChunks == 2    \* write calls fs.writeFileString needs for one text

\* ------------------------------------------------------------- universes
Bundles == {"a", "b"}
Files == {"index.md", "setup.md"}
Resp == {"ok", "noetag", "500", "fail"}   \* what the network does to one request
NoEtag == 0       \* no ETag header / no stored etag (undefined)
NoTime == -1      \* undefined timestamp
Unlimited == -1   \* write budget of a run in which no filesystem call fails

EmptyFcn == [x \in {} |-> 0]
Put(f, k, v) == [x \in (DOMAIN f) \cup {k} |-> IF x = k THEN v ELSE f[x]]
Range(s) == {s[i] : i \in DOMAIN s}
\* const v = <value>; <rest of the block>: the value is computed once
Bind(v, Rest(_)) == Rest(v)

VARIABLES
  originManifest,  \* body the origin serves for primers/_manifest.json
  originFile,      \* originFile[b][f]: version of primers/<b>/<f> at the origin
  manifestFile,    \* <base>/_manifest.json: "absent" or its text
  metaFile,        \* <base>/_meta.json: [state, data]
  disk,            \* disk[b][f]: 0 (absent) or the version held by <base>/<b>/<f>
  dirs,            \* bundle directories that exist under <base>
  compact,         \* compact[b]: <base>/<b>/_compact.md
  now,             \* the clock
  last,            \* record of the operation that ran last
  steps,           \* operations and events so far
  faults,          \* failures injected so far
  input,           \* what a local operation is applied to (a directory tree, ...)
  output           \* record of the local operation that was applied last

cacheVars == <<originManifest, originFile, manifestFile, metaFile, disk, dirs, compact,
               now, last, steps, faults>>
vars == <<originManifest, originFile, manifestFile, metaFile, disk, dirs, compact,
          now, last, steps, faults, input, output>>

\* ------------------------------------------------------ registry schema
\* Schema.decode(ManifestFromJson): the texts that parse
ManifestSchemaOk(text) == text \in {"R1", "R2"}

\* the primers record of a parsed manifest: name -> ordered file list
ManifestPrimers(text) ==
  IF text = "R1"
    THEN [n \in {"a"} |-> <<"setup.md">>]
    ELSE [n \in {"a", "b"} |-> IF n = "a" THEN <<"index.md", "setup.md">>
                                          ELSE <<"index.md">>]

ManifestBodies == {"R1", "R2", "bad"}

\* the files the origin serves
OriginPaths == {<<"a", "index.md">>, <<"a", "setup.md">>, <<"b", "index.md">>}

\* ------------------------------------------------------------ meta store
EmptyMeta == [manifestFetchedAt |-> NoTime, manifestEtag |-> "none", primers |-> EmptyFcn]

\* readMeta: {} when the file is missing or does not decode
readMeta(c) == IF c.meta.state = "ok" THEN c.meta.data ELSE EmptyMeta

\* ------------------------------------------- filesystem calls that write
\* c is the filesystem as the running operation sees it, with the number k of
\* writing calls that still succeed (Unlimited: all) and err, set once one failed.
FsCall(c) ==
  IF c.err THEN [c |-> c, go |-> FALSE]
  ELSE IF c.k = 0 THEN [c |-> [c EXCEPT !.err = TRUE], go |-> FALSE]
  ELSE [c |-> [c EXCEPT !.k = @ - 1], go |-> TRUE]

makeBaseDirectory(c) == FsCall(c).c

makeDirectory(c, b) ==
  Bind(FsCall(c), LAMBDA s : IF s.go THEN [s.c EXCEPT !.dirs = @ \cup {b}] ELSE s.c)

writeManifestFile(c, text) ==
  Bind(FsCall(c), LAMBDA s : IF s.go THEN [s.c EXCEPT !.manifest = text] ELSE s.c)

writeMeta(c, meta) ==
  Bind(FsCall(c), LAMBDA s :
    IF s.go THEN [s.c EXCEPT !.meta = [state |-> "ok", data |-> meta]] ELSE s.c)

\* writeFileString(<base>/<b>/<f>): fails when the directory does not exist
writeFileString(c, b, f, content) ==
  Bind(FsCall(c), LAMBDA s :
    IF ~s.go THEN s.c
    ELSE IF b \notin s.c.dirs THEN [s.c EXCEPT !.err = TRUE]
    ELSE [s.c EXCEPT !.disk[b][f] = content, !.written = @ \cup {<<b, f>>}])

Ctx(k) ==
  [manifest |-> manifestFile, meta |-> metaFile, disk |-> disk, dirs |-> dirs,
   compact |-> compact, written |-> {}, k |-> k, err |-> FALSE]

\* ---------------------------------------------------------------- origin
\* the origin's answer to GET primers/_manifest.json with If-None-Match inm
ManifestResponse(r, inm) ==
  IF r = "fail" THEN [status |-> 0, body |-> "", etag |-> "none"]
  ELSE IF r = "500" THEN [status |-> 500, body |-> "", etag |-> "none"]
  ELSE IF r = "ok" /\ inm # "none" /\ inm = originManifest
    THEN [status |-> 304, body |-> "", etag |-> originManifest]
  ELSE [status |-> 200, body |-> originManifest,
        etag |-> IF r = "ok" THEN originManifest ELSE "none"]

\* the URLs of the origin, relative to RAW_BASE
ManifestUrl == <<"primers", "_manifest.json">>
FileUrl(b, f) == <<"primers", b, f>>

MReq(inm, resp) == [inm |-> inm, status |-> resp.status, etag |-> resp.etag]

\* ------------------------------------------------------- ManifestService
\* url: the URLs a FetchError of the result may carry (one of them does)
MOut(c, result, ret, mreqs) ==
  [c |-> c, result |-> result, ret |-> ret, mreqs |-> mreqs, url |-> {}]

\* new FetchError({ url }) of the registry request
ManifestFetchError(c, mreqs) ==
  [MOut(c, "FetchError", "none", mreqs) EXCEPT !.url = {ManifestUrl}]

readCached(c) ==
  IF c.manifest = "absent" THEN [tag |-> "null", val |-> "none"]
  ELSE IF ManifestSchemaOk(c.manifest) THEN [tag |-> "ok", val |-> c.manifest]
  ELSE [tag |-> "ManifestError", val |-> "none"]

\* faulty variant of PersistManifest: the body is written before it is decoded
PersistBeforeDecode(c, meta, resp) ==
  Bind(writeMeta(writeManifestFile(makeBaseDirectory(c), resp.body),
                 [meta EXCEPT !.manifestFetchedAt = now, !.manifestEtag = resp.etag]),
       LAMBDA c3 :
    IF ~ManifestSchemaOk(resp.body) THEN [c |-> c3, result |-> "ManifestError"]
    ELSE [c |-> c3, result |-> IF c3.err THEN "PlatformError" ELSE "ok"])

\* decode, then makeDirectory, writeFileString(manifestPath), writeMeta
PersistManifest(c, meta, resp) ==
  IF ~ManifestSchemaOk(resp.body) THEN [c |-> c, result |-> "ManifestError"]
  ELSE Bind(writeMeta(writeManifestFile(makeBaseDirectory(c), resp.body),
                      [meta EXCEPT !.manifestFetchedAt = now, !.manifestEtag = resp.etag]),
            LAMBDA c3 : [c |-> c3, result |-> IF c3.err THEN "PlatformError" ELSE "ok"])

\* the result of a fetch whose 200 response went through PersistManifest
Fetched(p, resp, rq) ==
  MOut(p.c, p.result, IF p.result = "ok" THEN resp.body ELSE "none", rq)

fetchManifestWithoutEtag(c, r2) ==
  Bind(ManifestResponse(r2, "none"), LAMBDA resp :
    IF resp.status # 200 THEN ManifestFetchError(c, <<MReq("none", resp)>>)
    ELSE Fetched(PersistManifest(c, readMeta(c), resp), resp, <<MReq("none", resp)>>))

\* faulty variant of NotModified: no second request when the copy is missing
NotModifiedNoFallback(c, r2) ==
  Bind(readCached(c), LAMBDA cached :
    IF cached.tag = "ManifestError" THEN MOut(c, "ManifestError", "none", <<>>)
    ELSE IF cached.tag = "ok" THEN MOut(c, "ok", cached.val, <<>>)
    ELSE MOut(c, "FetchError", "none", <<>>))

\* faulty variant of NotModified: the 304 is recorded in the meta file
NotModifiedTouchesMeta(c, r2) ==
  Bind(readCached(c), LAMBDA cached :
    IF cached.tag = "ManifestError" THEN MOut(c, "ManifestError", "none", <<>>)
    ELSE IF cached.tag = "ok"
      THEN MOut(writeMeta(c, [readMeta(c) EXCEPT !.manifestFetchedAt = now]),
                "ok", cached.val, <<>>)
    ELSE fetchManifestWithoutEtag(c, r2))

\* the 304 branch of fetchManifest
NotModified(c, r2) ==
  Bind(readCached(c), LAMBDA cached :
    IF cached.tag = "ManifestError" THEN MOut(c, "ManifestError", "none", <<>>)
    ELSE IF cached.tag = "ok" THEN MOut(c, "ok", cached.val, <<>>)
    ELSE fetchManifestWithoutEtag(c, r2))

fetchManifest(c, r1, r2) ==
  Bind(readMeta(c), LAMBDA meta :
  Bind(ManifestResponse(r1, meta.manifestEtag), LAMBDA resp :
  Bind(<<MReq(meta.manifestEtag, resp)>>, LAMBDA rq :
    IF resp.status = 0 THEN ManifestFetchError(c, rq)
    ELSE IF resp.status = 304
      THEN Bind(NotModified(c, r2), LAMBDA n : [n EXCEPT !.mreqs = rq \o @])
    ELSE IF resp.status # 200 THEN ManifestFetchError(c, rq)
    ELSE Fetched(PersistManifest(c, meta, resp), resp, rq))))

\* faulty variant of get: the local copy is ignored
getAlwaysFetch(c, r1, r2) == fetchManifest(c, r1, r2)

get(c, r1, r2) ==
  Bind(readCached(c), LAMBDA cached :
    IF cached.tag = "ManifestError" THEN MOut(c, "ManifestError", "none", <<>>)
    ELSE IF cached.tag = "ok" THEN MOut(c, "ok", cached.val, <<>>)
    ELSE fetchManifest(c, r1, r2))

refresh(c, r1, r2) ==
  Bind(fetchManifest(c, r1, r2), LAMBDA m : [m EXCEPT !.ret = "none"])

\* the responses worth drawing: the second request happens only on a 304 without
\* a local copy, and get asks the network only without a local copy
SecondResp(c, r1) ==
  IF ManifestResponse(r1, readMeta(c).manifestEtag).status = 304 /\ c.manifest = "absent"
    THEN Resp ELSE {"ok"}
FirstRespOfGet(c) == IF c.manifest = "absent" THEN Resp ELSE {"ok"}

\* ------------------------------------------------------------ PrimerCache
\* the origin's answer to GET primers/<b>/<f> with If-None-Match inm
FileResponse(b, f, inm, r) ==
  IF r = "fail" THEN [status |-> 0, content |-> 0, etag |-> NoEtag]
  ELSE IF r = "500" THEN [status |-> 500, content |-> 0, etag |-> NoEtag]
  ELSE IF r = "ok" /\ inm # NoEtag /\ inm = originFile[b][f]
    THEN [status |-> 304, content |-> 0, etag |-> originFile[b][f]]
  ELSE [status |-> 200, content |-> originFile[b][f],
        etag |-> IF r = "ok" THEN originFile[b][f] ELSE NoEtag]

\* faulty variant of fetchFile: only a transport failure is an error
fetchFileAnyStatus(b, f, cachedEtag, r) ==
  Bind(FileResponse(b, f, cachedEtag, r), LAMBDA resp :
    [b |-> b, file |-> f, inm |-> cachedEtag, status |-> resp.status, url |-> FileUrl(b, f),
     tag |-> IF resp.status = 0 THEN "FetchError"
             ELSE IF resp.status = 304 THEN "notModified"
             ELSE "content",
     content |-> resp.content, etag |-> resp.etag])

\* faulty variant of fetchFile: the request never carries If-None-Match
fetchFileUnconditional(b, f, cachedEtag, r) ==
  Bind(FileResponse(b, f, NoEtag, r), LAMBDA resp :
    [b |-> b, file |-> f, inm |-> NoEtag, status |-> resp.status, url |-> FileUrl(b, f),
     tag |-> IF resp.status = 0 THEN "FetchError"
             ELSE IF resp.status # 200 THEN "FetchError"
             ELSE "content",
     content |-> resp.content, etag |-> resp.etag])

fetchFile(b, f, cachedEtag, r) ==
  Bind(FileResponse(b, f, cachedEtag, r), LAMBDA resp :
    [b |-> b, file |-> f, inm |-> cachedEtag, status |-> resp.status, url |-> FileUrl(b, f),
     tag |-> IF resp.status = 0 THEN "FetchError"
             ELSE IF resp.status = 304 THEN "notModified"
             ELSE IF resp.status # 200 THEN "FetchError"
             ELSE "content",
     content |-> resp.content, etag |-> resp.etag])

FReq(res) ==
  [b |-> res.b, f |-> res.file, inm |-> res.inm, status |-> res.status, tag |-> res.tag]

POut(c, result, list, mreqs, freqs) ==
  [c |-> c, result |-> result, ret |-> "none", list |-> list, mreqs |-> mreqs,
   freqs |-> freqs, caught |-> "", url |-> {}]

\* the failure of manifest.get, passed on by an operation of the cache
GetFailed(g) == [POut(g.c, g.result, <<>>, g.mreqs, {}) EXCEPT !.url = g.url]

Finish(c, list, mreqs, freqs) ==
  POut(c, IF c.err THEN "PlatformError" ELSE "ok", IF c.err THEN <<>> ELSE list,
       mreqs, freqs)

\* ---- compact index (lib/compact): determined by the index file, and by the
\* name and content of every other file of the bundle directory
NoCompact == [idx |-> 0, rows |-> {}]

generateCompact(c, n) ==
  IF c.disk[n]["index.md"] = 0 THEN NoCompact
  ELSE [idx |-> c.disk[n]["index.md"],
        rows |-> {<<f, c.disk[n][f]>> : f \in {g \in Files \ {"index.md"} : c.disk[n][g] # 0}}]

\* faulty variant of writeCompact: _compact.md is left as it is
noCompact(c, n) == c

writeCompact(c, n) ==
  Bind(generateCompact(c, n), LAMBDA comp :
    IF comp = NoCompact THEN c
    ELSE Bind(FsCall(c), LAMBDA s : IF s.go THEN [s.c EXCEPT !.compact[n] = comp] ELSE s.c))

StoredEtags(meta, n) ==
  IF n \in DOMAIN meta.primers THEN meta.primers[n].etags ELSE EmptyFcn

EtagOf(etags, f) == IF f \in DOMAIN etags THEN etags[f] ELSE NoEtag

\* faulty variant of WithPrimer: the other entries are not spread into the record
OnlyPrimer(meta, n, etags) ==
  [meta EXCEPT !.primers = [x \in {n} |-> [fetchedAt |-> now, etags |-> etags]]]

WithPrimer(meta, n, etags) ==
  [meta EXCEPT !.primers = Put(@, n, [fetchedAt |-> now, etags |-> etags])]

\* ---- ensure
\* faulty variant of missingFiles: fs.exists is not asked
allFiles(c, n, files) == files

missingFiles(c, n, files) == SelectSeq(files, LAMBDA f : c.disk[n][f] = 0)

\* faulty variant of ensureWriteOne: a file without ETag is not written
ensureWriteOnlyWithEtag(c, n, res) ==
  IF res.tag = "notModified" \/ res.etag = NoEtag THEN c
  ELSE writeFileString(makeDirectory(c, n), n, res.file, res.content)

\* one turn of the loop "Write files and collect etags"
ensureWriteOne(c, n, res) ==
  IF res.tag = "notModified" THEN c
  ELSE writeFileString(makeDirectory(c, n), n, res.file, res.content)

RECURSIVE ensureWrite(_, _, _, _, _)
ensureWrite(c, n, results, etags, i) ==
  IF i > Len(results) THEN [c |-> c, etags |-> etags]
  ELSE Bind(results[i], LAMBDA res :
         ensureWrite(ensureWriteOne(c, n, res), n, results,
                     IF res.tag # "notModified" /\ res.etag # NoEtag
                       THEN Put(etags, res.file, res.etag) ELSE etags,
                     i + 1))

\* faulty variant of ensureFrom: the files that arrived are written before the
\* failure of another request is passed on
ensureFromKeepsFetched(g, n, fr) ==
  IF g.result # "ok" THEN GetFailed(g)
  ELSE IF n \notin DOMAIN ManifestPrimers(g.ret)
    THEN [POut(g.c, "FetchError", <<>>, g.mreqs, {}) EXCEPT !.url = {<<"primers", n>>}]
  ELSE
    Bind(makeDirectory(g.c, n), LAMBDA c1 :
    Bind(readMeta(c1), LAMBDA meta :
    Bind(missingFiles(c1, n, ManifestPrimers(g.ret)[n]), LAMBDA missing :
    Bind([i \in 1..Len(missing) |-> fetchFile(n, missing[i], NoEtag, fr[missing[i]])],
         LAMBDA results :
    Bind({FReq(results[i]) : i \in 1..Len(missing)}, LAMBDA freqs :
      IF c1.err THEN Finish(c1, <<>>, g.mreqs, {})
      ELSE IF Len(missing) = 0 THEN Finish(c1, <<>>, g.mreqs, {})
      ELSE Bind(ensureWrite(c1, n, SelectSeq(results, LAMBDA res : res.tag # "FetchError"),
                            StoredEtags(meta, n), 1), LAMBDA w :
             IF \E i \in 1..Len(missing) : results[i].tag = "FetchError"
               THEN [POut(w.c, "FetchError", <<>>, g.mreqs, freqs) EXCEPT !.url =
                       {results[i].url :
                          i \in {j \in 1..Len(missing) : results[j].tag = "FetchError"}}]
               ELSE Finish(writeCompact(writeMeta(w.c, WithPrimer(meta, n, w.etags)), n),
                           <<>>, g.mreqs, freqs)))))))

ensureFrom(g, n, fr) ==
  IF g.result # "ok" THEN GetFailed(g)
  ELSE IF n \notin DOMAIN ManifestPrimers(g.ret)
    THEN [POut(g.c, "FetchError", <<>>, g.mreqs, {}) EXCEPT !.url = {<<"primers", n>>}]
  ELSE
    Bind(makeDirectory(g.c, n), LAMBDA c1 :
    Bind(readMeta(c1), LAMBDA meta :
    Bind(missingFiles(c1, n, ManifestPrimers(g.ret)[n]), LAMBDA missing :
    Bind([i \in 1..Len(missing) |-> fetchFile(n, missing[i], NoEtag, fr[missing[i]])],
         LAMBDA results :
    Bind({FReq(results[i]) : i \in 1..Len(missing)}, LAMBDA freqs :
      IF c1.err THEN Finish(c1, <<>>, g.mreqs, {})
      ELSE IF Len(missing) = 0 THEN Finish(c1, <<>>, g.mreqs, {})
      ELSE IF \E i \in 1..Len(missing) : results[i].tag = "FetchError"
        THEN [POut(c1, "FetchError", <<>>, g.mreqs, freqs) EXCEPT !.url =
                {results[i].url : i \in {j \in 1..Len(missing) : results[j].tag = "FetchError"}}]
      ELSE Bind(ensureWrite(c1, n, results, StoredEtags(meta, n), 1), LAMBDA w :
             Finish(writeCompact(writeMeta(w.c, WithPrimer(meta, n, w.etags)), n),
                    <<>>, g.mreqs, freqs)))))))

ensure(c, n, r1, r2, fr) == Bind(get(c, r1, r2), LAMBDA g : ensureFrom(g, n, fr))

\* ---- refreshPrimer
\* faulty variant of InitialEtags: newEtags starts empty
NoInitialEtags(existingEtags) == EmptyFcn

\* const newEtags = { ...existingEtags }
InitialEtags(existingEtags) == existingEtags

\* faulty variant of refreshWrite: the loop ends at the first failed request
RECURSIVE refreshWriteUntilFailure(_, _, _, _, _, _)
refreshWriteUntilFailure(c, n, results, etags, anyUpdated, i) ==
  IF i > Len(results) \/ results[i].tag = "FetchError"
    THEN [c |-> c, etags |-> etags, anyUpdated |-> anyUpdated]
  ELSE Bind(results[i], LAMBDA res :
         IF res.tag = "notModified"
           THEN refreshWriteUntilFailure(c, n, results, etags, anyUpdated, i + 1)
           ELSE refreshWriteUntilFailure(writeFileString(c, n, res.file, res.content), n,
                                         results,
                                         IF res.etag # NoEtag
                                           THEN Put(etags, res.file, res.etag) ELSE etags,
                                         TRUE, i + 1))

RECURSIVE refreshWrite(_, _, _, _, _, _)
refreshWrite(c, n, results, etags, anyUpdated, i) ==
  IF i > Len(results) THEN [c |-> c, etags |-> etags, anyUpdated |-> anyUpdated]
  ELSE Bind(results[i], LAMBDA res :
         IF res.tag \in {"FetchError", "notModified"}
           THEN refreshWrite(c, n, results, etags, anyUpdated, i + 1)
           ELSE refreshWrite(writeFileString(c, n, res.file, res.content), n, results,
                             IF res.etag # NoEtag THEN Put(etags, res.file, res.etag)
                                                  ELSE etags,
                             TRUE, i + 1))

\* [c, anyUpdated, freqs]; c.err when a filesystem call failed
refreshPrimer(c, n, files, existingEtags, fr) ==
  Bind(makeDirectory(c, n), LAMBDA c1 :
    IF c1.err THEN [c |-> c1, anyUpdated |-> FALSE, freqs |-> {}]
    ELSE
      Bind([i \in 1..Len(files) |->
              fetchFile(n, files[i], EtagOf(existingEtags, files[i]), fr[<<n, files[i]>>])],
           LAMBDA results :
      Bind({FReq(results[i]) : i \in 1..Len(files)}, LAMBDA freqs :
      Bind(refreshWrite(c1, n, results, InitialEtags(existingEtags), FALSE, 1), LAMBDA w :
        IF w.anyUpdated
          THEN [c |-> writeCompact(writeMeta(w.c, WithPrimer(readMeta(w.c), n, w.etags)), n),
                anyUpdated |-> TRUE, freqs |-> freqs]
          ELSE [c |-> w.c, anyUpdated |-> FALSE, freqs |-> freqs]))))

\* ---- refreshInBackground
\* faulty variant of refreshInner: without `if (!primerConfig) return`
refreshInnerUnlisted(g, n, fr) ==
  IF g.result # "ok" THEN GetFailed(g)
  ELSE Bind(refreshPrimer(g.c, n,
                          IF n \in DOMAIN ManifestPrimers(g.ret)
                            THEN ManifestPrimers(g.ret)[n] ELSE <<>>,
                          StoredEtags(readMeta(g.c), n), fr),
            LAMBDA p : Finish(p.c, <<>>, g.mreqs, p.freqs))

refreshInner(g, n, fr) ==
  IF g.result # "ok" THEN GetFailed(g)
  ELSE IF n \notin DOMAIN ManifestPrimers(g.ret) THEN POut(g.c, "ok", <<>>, g.mreqs, {})
  ELSE Bind(refreshPrimer(g.c, n, ManifestPrimers(g.ret)[n],
                          StoredEtags(readMeta(g.c), n), fr),
            LAMBDA p : Finish(p.c, <<>>, g.mreqs, p.freqs))

\* faulty variant of catchAllVoid: Effect.asVoid alone
propagate(o) == [o EXCEPT !.result = IF @ = "ok" THEN "void" ELSE @]

\* Effect.catchAll(() => Effect.void), Effect.asVoid
catchAllVoid(o) == [o EXCEPT !.result = "void", !.caught = IF o.result = "ok" THEN "" ELSE o.result]

refreshInBackground(c, n, r1, r2, fr) ==
  catchAllVoid(Bind(get(c, r1, r2), LAMBDA g : refreshInner(g, n, fr)))

\* ---- refreshAll
\* the order in which the keys of a record are visited
BundleOrder == <<"a", "b">>

\* faulty variant of installedPrimers: the keys of the registry
registryPrimers(meta, text) == SelectSeq(BundleOrder, LAMBDA n : n \in DOMAIN ManifestPrimers(text))

\* Object.keys(meta.primers ?? {})
installedPrimers(meta, text) == SelectSeq(BundleOrder, LAMBDA n : n \in DOMAIN meta.primers)

RECURSIVE refreshLoop(_, _, _, _, _, _, _, _)
refreshLoop(c, meta, text, installed, fr, refreshed, freqs, i) ==
  IF i > Len(installed) \/ c.err
    THEN [c |-> c, refreshed |-> refreshed, freqs |-> freqs]
  ELSE IF installed[i] \notin DOMAIN ManifestPrimers(text)
    THEN refreshLoop(c, meta, text, installed, fr, refreshed, freqs, i + 1)
  ELSE Bind(refreshPrimer(c, installed[i], ManifestPrimers(text)[installed[i]],
                          StoredEtags(meta, installed[i]), fr),
            LAMBDA p :
         refreshLoop(p.c, meta, text, installed, fr,
                     IF p.anyUpdated /\ ~p.c.err THEN Append(refreshed, installed[i])
                                                 ELSE refreshed,
                     freqs \cup p.freqs, i + 1))

refreshAllFrom(g, fr) ==
  IF g.result # "ok" THEN GetFailed(g)
  ELSE Bind(readMeta(g.c), LAMBDA meta :
       Bind(installedPrimers(meta, g.ret), LAMBDA installed :
         IF Len(installed) = 0 THEN POut(g.c, "ok", <<>>, g.mreqs, {})
         ELSE Bind(refreshLoop(g.c, meta, g.ret, installed, fr, <<>>, {}, 1), LAMBDA l :
                Finish(l.c, l.refreshed, g.mreqs, l.freqs))))

refreshAll(c, r1, r2, fr) == Bind(get(c, r1, r2), LAMBDA g : refreshAllFrom(g, fr))

\* the files an operation asks the origin for: the responses worth drawing
EnsureNeeds(g, n) ==
  IF g.result = "ok" /\ n \in DOMAIN ManifestPrimers(g.ret)
    THEN Range(missingFiles(g.c, n, ManifestPrimers(g.ret)[n]))
    ELSE {}

RefreshNeeds(g, ns) ==
  IF g.result = "ok"
    THEN {<<n, f>> \in Bundles \X Files :
            n \in ns /\ n \in DOMAIN ManifestPrimers(g.ret)
                     /\ f \in Range(ManifestPrimers(g.ret)[n])}
    ELSE {}

RefreshAllNeeds(g) ==
  RefreshNeeds(g, IF g.result = "ok" THEN Range(installedPrimers(readMeta(g.c), g.ret))
                                     ELSE {})

\* number of writing filesystem calls of a run without failure
Writes(o) == Unlimited - o.c.k

\* ------------------------------------------------------------ the machine
NoOp ==
  [op |-> "none", arg |-> "", result |-> "", ret |-> "none", list |-> <<>>,
   mreqs |-> <<>>, freqs |-> {}, written |-> {}, caught |-> "", again |-> FALSE,
   url |-> <<>>]

NoOutput == [op |-> "none", arg |-> <<>>, result |-> [tag |-> "none"]]

\* the empty cache directory
CacheInit ==
  /\ originManifest = "R2"
  /\ originFile = [b \in Bundles |-> [f \in Files |-> 1]]
  /\ manifestFile = "absent"
  /\ metaFile = [state |-> "absent", data |-> EmptyMeta]
  /\ disk = [b \in Bundles |-> [f \in Files |-> 0]]
  /\ dirs = {}
  /\ compact = [b \in Bundles |-> NoCompact]
  /\ now = 0
  /\ last = NoOp
  /\ steps = 0
  /\ faults = 0

Init ==
  /\ CacheInit
  /\ input = <<>>
  /\ output = NoOutput

\* the operation's effect on the cache directory, and its record
Commit(op, arg, o, nf) ==
  /\ faults' = faults + nf
  /\ manifestFile' = o.c.manifest
  /\ metaFile' = o.c.meta
  /\ disk' = o.c.disk
  /\ dirs' = o.c.dirs
  /\ compact' = o.c.compact
  /\ \E u \in (IF o.url = {} THEN {<<>>} ELSE o.url) :
     last' = [op |-> op, arg |-> arg, result |-> o.result, ret |-> o.ret,
              list |-> o.list, mreqs |-> o.mreqs, freqs |-> o.freqs,
              written |-> o.c.written, caught |-> o.caught,
              again |-> last.op = op /\ last.arg = arg /\ last.result = "ok",
              url |-> u]
  /\ steps' = steps + 1
  /\ UNCHANGED <<originManifest, originFile, now, input, output>>

\* ---- the inputs of a run: what the network answers to each request, and how
\* many writing filesystem calls succeed; at most MaxFaults of them fail in a run
Bad == {"500", "fail"}
NBad(r) == IF r \in Bad THEN 1 ELSE 0
Answers(S, used) == IF faults + used < MaxFaults THEN S ELSE S \ Bad
FileAnswers(needs, used) ==
  {fr \in [needs -> Resp] :
     faults + used + Cardinality({x \in needs : fr[x] \in Bad}) <= MaxFaults}
NBadIn(fr) == Cardinality({x \in DOMAIN fr : fr[x] \in Bad})
Budgets(w, used) == IF faults + used < MaxFaults THEN 0..w ELSE {w}
NFail(k, full) == IF k < Writes(full) THEN 1 ELSE 0

AsM(m) == [c |-> m.c, result |-> m.result, ret |-> m.ret, list |-> <<>>,
           mreqs |-> m.mreqs, freqs |-> {}, caught |-> "", url |-> m.url]

Get ==
  /\ steps < MaxSteps
  /\ \E c \in {Ctx(Unlimited)} :
     \E r1 \in Answers(FirstRespOfGet(c), 0) :
     \E r2 \in Answers(SecondResp(c, r1), NBad(r1)) :
     \E full \in {get(c, r1, r2)} :
     \E k \in Budgets(Writes(full), NBad(r1) + NBad(r2)) :
     \E o \in {IF k = Writes(full) THEN full ELSE get(Ctx(k), r1, r2)} :
       Commit("get", "", AsM(o), NBad(r1) + NBad(r2) + NFail(k, full))

Refresh ==
  /\ steps < MaxSteps
  /\ \E c \in {Ctx(Unlimited)} :
     \E r1 \in Answers(Resp, 0) :
     \E r2 \in Answers(SecondResp(c, r1), NBad(r1)) :
     \E full \in {refresh(c, r1, r2)} :
     \E k \in Budgets(Writes(full), NBad(r1) + NBad(r2)) :
     \E o \in {IF k = Writes(full) THEN full ELSE refresh(Ctx(k), r1, r2)} :
       Commit("refresh", "", AsM(o), NBad(r1) + NBad(r2) + NFail(k, full))

Ensure(n) ==
  /\ steps < MaxSteps
  /\ \E c \in {Ctx(Unlimited)} :
     \E r1 \in Answers(FirstRespOfGet(c), 0) :
     \E r2 \in Answers(SecondResp(c, r1), NBad(r1)) :
     \E g \in {get(c, r1, r2)} :
     \E fr \in FileAnswers(EnsureNeeds(g, n), NBad(r1) + NBad(r2)) :
     \E full \in {ensureFrom(g, n, fr)} :
     \E k \in Budgets(Writes(full), NBad(r1) + NBad(r2) + NBadIn(fr)) :
     \E o \in {IF k = Writes(full) THEN full ELSE ensure(Ctx(k), n, r1, r2, fr)} :
       Commit("ensure", n, o, NBad(r1) + NBad(r2) + NBadIn(fr) + NFail(k, full))

RefreshInBackground(n) ==
  /\ steps < MaxSteps
  /\ \E c \in {Ctx(Unlimited)} :
     \E r1 \in Answers(FirstRespOfGet(c), 0) :
     \E r2 \in Answers(SecondResp(c, r1), NBad(r1)) :
     \E fr \in FileAnswers(RefreshNeeds(get(c, r1, r2), {n}), NBad(r1) + NBad(r2)) :
     \E full \in {refreshInBackground(c, n, r1, r2, fr)} :
     \E k \in Budgets(Writes(full), NBad(r1) + NBad(r2) + NBadIn(fr)) :
     \E o \in {IF k = Writes(full) THEN full
                ELSE refreshInBackground(Ctx(k), n, r1, r2, fr)} :
       Commit("refreshInBackground", n, o,
              NBad(r1) + NBad(r2) + NBadIn(fr) + NFail(k, full))

RefreshAll ==
  /\ steps < MaxSteps
  /\ \E c \in {Ctx(Unlimited)} :
     \E r1 \in Answers(FirstRespOfGet(c), 0) :
     \E r2 \in Answers(SecondResp(c, r1), NBad(r1)) :
     \E g \in {get(c, r1, r2)} :
     \E fr \in FileAnswers(RefreshAllNeeds(g), NBad(r1) + NBad(r2)) :
     \E full \in {refreshAllFrom(g, fr)} :
     \E k \in Budgets(Writes(full), NBad(r1) + NBad(r2) + NBadIn(fr)) :
     \E o \in {IF k = Writes(full) THEN full ELSE refreshAll(Ctx(k), r1, r2, fr)} :
       Commit("refreshAll", "", o, NBad(r1) + NBad(r2) + NBadIn(fr) + NFail(k, full))

\* ---- environment
\* an event is worth a step only when an operation can still follow it
Env ==
  /\ steps + 1 < MaxSteps
  /\ steps' = steps + 1
  /\ last' = [NoOp EXCEPT !.op = "env"]
  /\ UNCHANGED <<faults, input, output>>

OriginPublishFile(b, f) ==
  /\ Env
  /\ originFile[b][f] < MaxVersion
  /\ originFile' = [originFile EXCEPT ![b][f] = @ + 1]
  /\ UNCHANGED <<originManifest, manifestFile, metaFile, disk, dirs, compact, now>>

OriginPublishManifest(text) ==
  /\ Env
  /\ text # originManifest
  /\ originManifest' = text
  /\ UNCHANGED <<originFile, manifestFile, metaFile, disk, dirs, compact, now>>

Tick ==
  /\ Env
  /\ now < MaxClock
  /\ now' = now + 1
  /\ UNCHANGED <<originManifest, originFile, manifestFile, metaFile, disk, dirs, compact>>

\* the cache directory is the user's: files of it get removed or damaged
LoseManifestFile(text) ==
  /\ Env
  /\ manifestFile # "absent"
  /\ manifestFile' = text
  /\ UNCHANGED <<originManifest, originFile, metaFile, disk, dirs, compact, now>>

LoseMetaFile(state) ==
  /\ Env
  /\ metaFile.state = "ok"
  /\ metaFile' = [state |-> state, data |-> EmptyMeta]
  /\ UNCHANGED <<originManifest, originFile, manifestFile, disk, dirs, compact, now>>

Next ==
  \/ Get
  \/ Refresh
  \/ \E n \in Bundles : Ensure(n)
  \/ \E n \in Bundles : RefreshInBackground(n)
  \/ RefreshAll
  \/ \E p \in OriginPaths : OriginPublishFile(p[1], p[2])
  \/ \E text \in ManifestBodies : OriginPublishManifest(text)
  \/ Tick
  \/ \E text \in {"absent", "bad"} : LoseManifestFile(text)
  \/ \E state \in {"absent", "corrupt"} : LoseMetaFile(state)

Spec == Init /\ [][Next]_vars

\* ------------------------------------------------------------ properties
MetaNow == IF metaFile.state = "ok" THEN metaFile.data ELSE EmptyMeta
StoredEtag(b, f) == EtagOf(StoredEtags(MetaNow, b), f)
Installed == DOMAIN MetaNow.primers
LocalCopyValid == manifestFile # "absent" /\ ManifestSchemaOk(manifestFile)
Listed(text, b, f) ==
  /\ ManifestSchemaOk(text)
  /\ b \in DOMAIN ManifestPrimers(text)
  /\ f \in Range(ManifestPrimers(text)[b])
Requested(l) == {<<rq.b, rq.f>> : rq \in l.freqs}
CallsGet == {"get", "ensure", "refreshInBackground", "refreshAll"}

\* C1: an ensure(n) that immediately follows a successful ensure(n) asks the
\* origin for no file.
C1_SecondEnsureFetchesNothing ==
  (last.op = "ensure" /\ last.again) => last.freqs = {}

C1_Witness ==
  /\ last.op = "ensure" /\ last.again /\ last.result = "ok"
  /\ \A f \in Range(ManifestPrimers(manifestFile)[last.arg]) : disk[last.arg][f] # 0

\* C2: ensure(n) asks only for files of n that the registry lists and that are
\* absent on disk, and always unconditionally; a file that is present is neither
\* asked for nor written, so its content stays what it was.
C2_EnsureFetchesOnlyMissing ==
  [][(last'.op = "ensure" /\ steps' = steps + 1) =>
       /\ \A rq \in last'.freqs :
            /\ rq.b = last'.arg
            /\ Listed(manifestFile', rq.b, rq.f)
            /\ disk[rq.b][rq.f] = 0
            /\ rq.inm = NoEtag
       /\ \A b \in Bundles, f \in Files :
            disk[b][f] # 0 =>
              /\ <<b, f>> \notin Requested(last')
              /\ <<b, f>> \notin last'.written
              /\ disk'[b][f] = disk[b][f]]_vars

C2_Witness ==
  /\ last.op = "ensure" /\ last.result = "ok" /\ last.freqs # {}
  /\ \E f \in Files :
       /\ disk[last.arg][f] # 0
       /\ <<last.arg, f>> \notin Requested(last)
       /\ disk[last.arg][f] # originFile[last.arg][f]

\* C3: in a refresh, a file answered 304 (the stored ETag is the origin's
\* current one) is not written and keeps its stored ETag.
C3_NotModifiedLeftAlone ==
  [][(last'.op \in {"refreshInBackground", "refreshAll"} /\ steps' = steps + 1) =>
       \A rq \in last'.freqs :
         rq.tag = "notModified" =>
           /\ StoredEtag(rq.b, rq.f) = originFile[rq.b][rq.f]
           /\ <<rq.b, rq.f>> \notin last'.written
           /\ disk'[rq.b][rq.f] = disk[rq.b][rq.f]
           /\ StoredEtag(rq.b, rq.f)' = StoredEtag(rq.b, rq.f)]_vars

C3_Witness ==
  /\ last.op = "refreshInBackground"
  /\ \E rq \in last.freqs : rq.tag = "notModified" /\ StoredEtag(rq.b, rq.f) = rq.inm
  /\ last.written # {}
  /\ MetaNow.primers[last.arg].fetchedAt = now

\* C4: refreshAll asks for and writes files only of bundles that are keys of
\* Meta when it starts; with no key it asks for no file and, the registry being
\* at hand, returns the empty list.
C4_RefreshAllKeepsFootprint ==
  [][(last'.op = "refreshAll" /\ steps' = steps + 1) =>
       /\ \A rq \in last'.freqs : rq.b \in Installed
       /\ \A w \in last'.written : w[1] \in Installed
       /\ \A b \in Bundles \ Installed :
            disk'[b] = disk[b] /\ compact'[b] = compact[b] /\ (b \in dirs' => b \in dirs)
       /\ Installed' = Installed
       /\ \A i \in DOMAIN last'.list : last'.list[i] \in Installed
       /\ Installed = {} =>
            /\ last'.freqs = {} /\ last'.list = <<>>
            /\ last'.result \in {"ok", "FetchError", "ManifestError", "PlatformError"}
            /\ (LocalCopyValid => last'.result = "ok")]_vars

C4_Witness ==
  /\ last.op = "refreshAll" /\ last.result = "ok"
  /\ last.written # {}
  /\ LocalCopyValid
  /\ \E b \in DOMAIN ManifestPrimers(manifestFile) : b \notin Installed /\ b \notin dirs

\* C5: refreshAll returns n only if the content on disk of some file of n is
\* not what it was before the refresh.
C5_ReturnedOnlyIfChanged ==
  [][(last'.op = "refreshAll" /\ steps' = steps + 1) =>
       \A i \in DOMAIN last'.list :
         \E f \in Files : disk'[last'.list[i]][f] # disk[last'.list[i]][f]]_vars

\* C6: refreshInBackground completes with void whatever fails inside it.
C6_BackgroundRefreshNeverFails ==
  last.op = "refreshInBackground" => last.result = "void"

C6_Witness ==
  /\ last.op = "refreshInBackground"
  /\ last.caught = "PlatformError"
  /\ last.written # {}

\* C7: with a local registry copy that parses, get (called directly or by a
\* cache operation) sends no request and returns that copy.
C7_GetUsesValidLocalCopy ==
  [][(last'.op \in CallsGet /\ steps' = steps + 1 /\ LocalCopyValid) =>
       /\ last'.mreqs = <<>>
       /\ manifestFile' = manifestFile
       /\ (last'.op = "get" => last'.result = "ok" /\ last'.ret = manifestFile)]_vars

C7_Witness ==
  /\ last.op = "get" /\ last.result = "ok" /\ last.mreqs = <<>>
  /\ last.ret = manifestFile
  /\ manifestFile # originManifest

\* C8: a local registry copy that does not parse is treated like a missing one:
\* get goes to the network, and a refresh answered 304 fetches again without ETag.
C8_CorruptCopyTreatedAsMissing ==
  [][(last'.op \in {"get", "refresh"} /\ steps' = steps + 1
        /\ manifestFile # "absent" /\ ~ManifestSchemaOk(manifestFile)) =>
       /\ last'.mreqs # <<>>
       /\ last'.mreqs[1].status = 304 =>
            Len(last'.mreqs) = 2 /\ last'.mreqs[2].inm = "none"
       /\ last'.mreqs[Len(last'.mreqs)].status = 200 /\ ManifestSchemaOk(originManifest) =>
            last'.result \in {"ok", "PlatformError"}]_vars

\* C9: a registry fetch answered 304 while the local copy is missing sends a
\* second request without If-None-Match; answered 200 with a body that parses,
\* the body is the local copy, Meta holds the response's ETag and the time, and
\* the parsed registry is returned: the next get finds a valid local copy.
C9_NotModifiedWithoutCopyRefetches ==
  [][(last'.op \in {"get", "refresh"} /\ steps' = steps + 1 /\ manifestFile = "absent"
        /\ last'.mreqs # <<>> /\ last'.mreqs[1].status = 304) =>
       /\ last'.mreqs[1].inm # "none"
       /\ Len(last'.mreqs) = 2
       /\ last'.mreqs[2].inm = "none"
       /\ last'.mreqs[2].status = 200 /\ ManifestSchemaOk(originManifest) =>
            /\ last'.result \in {"ok", "PlatformError"}
            /\ last'.result = "ok" =>
                 /\ manifestFile' = originManifest
                 /\ LocalCopyValid'
                 /\ metaFile'.state = "ok"
                 /\ metaFile'.data.manifestEtag = last'.mreqs[2].etag
                 /\ metaFile'.data.manifestFetchedAt = now
                 /\ metaFile'.data.primers = MetaNow.primers
                 /\ (last'.op = "get" => last'.ret = originManifest)]_vars

C9_Witness ==
  /\ last.op = "refresh" /\ last.result = "ok"
  /\ Len(last.mreqs) = 2
  /\ last.mreqs[1].status = 304 /\ last.mreqs[2].status = 200
  /\ manifestFile = originManifest
  /\ MetaNow.manifestEtag = originManifest

\* C10: a 200 body that fails the schema makes the registry fetch fail with
\* ManifestError; nothing is returned and neither the local copy nor Meta changes.
C10_InvalidBodyIsHardError ==
  [][(last'.op \in {"get", "refresh", "ensure", "refreshAll"} /\ steps' = steps + 1
        /\ last'.mreqs # <<>> /\ last'.mreqs[Len(last'.mreqs)].status = 200
        /\ ~ManifestSchemaOk(originManifest)) =>
       /\ last'.result = "ManifestError"
       /\ last'.ret = "none" /\ last'.list = <<>> /\ last'.freqs = {}
       /\ manifestFile' = manifestFile
       /\ metaFile' = metaFile]_vars

C10_Witness ==
  /\ last.op = "refresh" /\ last.result = "ManifestError"
  /\ last.mreqs[Len(last.mreqs)].status = 200
  /\ LocalCopyValid
  /\ MetaNow.manifestEtag = manifestFile

\* ---- failing requests
Expected == {200, 304}
FailedFiles(l) == {rq \in l.freqs : rq.status \notin Expected}

\* C11: a registry request, and a file request of ensure, that meets a transport
\* failure or a status other than 200 and 304 makes the operation fail with a
\* FetchError carrying the URL of that request; no request follows the failed
\* one, and ensure asks for each file once.
C11_FailedFetchIsFetchError ==
  /\ last.op \in {"get", "refresh", "ensure", "refreshAll"} =>
       \A i \in DOMAIN last.mreqs :
         last.mreqs[i].status \notin Expected =>
           /\ i = Len(last.mreqs)
           /\ last.freqs = {}
           /\ last.result = "FetchError"
           /\ last.url = ManifestUrl
  /\ last.op = "ensure" =>
       /\ \A q1, q2 \in last.freqs : (q1.b = q2.b /\ q1.f = q2.f) => q1 = q2
       /\ FailedFiles(last) # {} =>
            /\ last.result = "FetchError"
            /\ last.written = {}
            /\ last.url \in {FileUrl(rq.b, rq.f) : rq \in FailedFiles(last)}

C11_Witness ==
  /\ last.op = "ensure"
  /\ last.result = "FetchError"
  /\ \E rq \in last.freqs : rq.status = 500 /\ last.url = FileUrl(rq.b, rq.f)
  /\ \E rq \in last.freqs : rq.status = 200

\* ================================================================ resolve
\* ---- strings are sequences of characters
Chars ==
  [x \in {"a", "b", "index", "setup", "index.md", "setup.md"} |->
     CASE x = "a" -> <<"a">>
       [] x = "b" -> <<"b">>
       [] x = "index" -> <<"i", "n", "d", "e", "x">>
       [] x = "setup" -> <<"s", "e", "t", "u", "p">>
       [] x = "index.md" -> <<"i", "n", "d", "e", "x", ".", "m", "d">>
       [] x = "setup.md" -> <<"s", "e", "t", "u", "p", ".", "m", "d">>]

MdExt == <<".", "m", "d">>

\* String.prototype.endsWith
endsWith(str, suffix) ==
  /\ Len(str) >= Len(suffix)
  /\ SubSeq(str, Len(str) - Len(suffix) + 1, Len(str)) = suffix

\* Array.prototype.join
RECURSIVE join(_, _)
join(segments, sep) ==
  IF Len(segments) = 0 THEN <<>>
  ELSE IF Len(segments) = 1 THEN segments[1]
  ELSE segments[1] \o sep \o join(Tail(segments), sep)

\* ---- the directory tree under <base>: a function from the paths of its regular
\* files to their contents; a path is the sequence of its names below <base>
isDirectory(fs, p) ==
  \E q \in DOMAIN fs : Len(q) > Len(p) /\ SubSeq(q, 1, Len(p)) = p

\* fs.exists: a file or a directory
exists(fs, p) == p \in DOMAIN fs \/ isDirectory(fs, p)

\* fs.readFileString
readFileString(fs, p) ==
  IF p \in DOMAIN fs THEN [tag |-> "ok", val |-> fs[p]]
  ELSE [tag |-> "PlatformError", val |-> p]

\* faulty variant of indexPath: the name lacks its extension
indexPathNoExt(segments) == Append(segments, Chars["index"])

\* path.join(targetPath, "index.md")
indexPath(segments) == Append(segments, Chars["index.md"])

\* targetPath.endsWith(".md") ? targetPath : `${targetPath}.md`; the names hold no
\* separator, so the path ends as its last name does
mdPath(segments) ==
  IF endsWith(segments[Len(segments)], MdExt) THEN segments
  ELSE [segments EXCEPT ![Len(segments)] = @ \o MdExt]

ContentNotFoundError(segments) ==
  [tag |-> "ContentNotFoundError", val |-> join(segments, <<"/">>)]

\* faulty variant of resolve: the .md file is tried first
resolveMdFirst(fs, segments) ==
  IF exists(fs, mdPath(segments)) THEN readFileString(fs, mdPath(segments))
  ELSE IF exists(fs, indexPath(segments)) THEN readFileString(fs, indexPath(segments))
  ELSE ContentNotFoundError(segments)

resolve(fs, segments) ==
  IF exists(fs, indexPath(segments)) THEN readFileString(fs, indexPath(segments))
  ELSE IF exists(fs, mdPath(segments)) THEN readFileString(fs, mdPath(segments))
  ELSE ContentNotFoundError(segments)

\* faulty variant of resolvePath: the .md file is tried first
resolvePathMdFirst(fs, segments) ==
  IF exists(fs, mdPath(segments)) THEN [tag |-> "ok", val |-> mdPath(segments)]
  ELSE IF exists(fs, indexPath(segments)) THEN [tag |-> "ok", val |-> indexPath(segments)]
  ELSE ContentNotFoundError(segments)

resolvePath(fs, segments) ==
  IF exists(fs, indexPath(segments)) THEN [tag |-> "ok", val |-> indexPath(segments)]
  ELSE IF exists(fs, mdPath(segments)) THEN [tag |-> "ok", val |-> mdPath(segments)]
  ELSE ContentNotFoundError(segments)

\* ---- the trees and the segment lists the two operations are applied to: what
\* ensure leaves under <base> for registries whose files are .md files in
\* directories named without extension
TreePaths ==
  {<<Chars["a"], Chars["index.md"]>>,
   <<Chars["a"], Chars["setup.md"]>>,
   <<Chars["a"], Chars["setup"], Chars["index.md"]>>,
   <<Chars["a"], Chars["index"], Chars["index.md"]>>,
   <<Chars["b"], Chars["index.md"]>>}

Trees == UNION {[S -> 1..MaxVersion] : S \in SUBSET TreePaths}

SegmentLists ==
  {<<Chars["a"]>>, <<Chars["b"]>>,
   <<Chars["a"], Chars["setup"]>>, <<Chars["a"], Chars["setup.md"]>>,
   <<Chars["a"], Chars["index"]>>, <<Chars["a"], Chars["index.md"]>>,
   <<Chars["b"], Chars["setup"]>>}

InitResolve ==
  /\ CacheInit
  /\ input \in Trees
  /\ output = NoOutput

Resolve(segments) ==
  /\ output' = [op |-> "resolve", arg |-> segments, result |-> resolve(input, segments)]
  /\ UNCHANGED <<cacheVars, input>>

ResolvePath(segments) ==
  /\ output' = [op |-> "resolvePath", arg |-> segments,
                result |-> resolvePath(input, segments)]
  /\ UNCHANGED <<cacheVars, input>>

NextResolve ==
  \/ \E segments \in SegmentLists : Resolve(segments)
  \/ \E segments \in SegmentLists : ResolvePath(segments)

SpecResolve == InitResolve /\ [][NextResolve]_vars

\* the two candidates of a segment list, as paths below <base>
IndexCandidate(segments) == segments \o <<Chars["index.md"]>>
MdCandidate(segments) ==
  SubSeq(segments, 1, Len(segments) - 1) \o
    <<IF endsWith(segments[Len(segments)], MdExt) THEN segments[Len(segments)]
      ELSE segments[Len(segments)] \o MdExt>>

\* C12: resolve(segments) returns the content of <base>/<segments>/index.md when
\* that file exists, otherwise the content of <base>/<segments>.md (.md appended
\* only when the path does not end in it), otherwise it fails with
\* ContentNotFoundError; it changes nothing and asks the network nothing.
C12_ResolveOrder ==
  output.op = "resolve" =>
    /\ IF IndexCandidate(output.arg) \in DOMAIN input
         THEN output.result = [tag |-> "ok", val |-> input[IndexCandidate(output.arg)]]
       ELSE IF MdCandidate(output.arg) \in DOMAIN input
         THEN output.result = [tag |-> "ok", val |-> input[MdCandidate(output.arg)]]
       ELSE output.result.tag = "ContentNotFoundError"
    /\ last = NoOp

\* both candidates exist with different contents, and the index file was returned
C12_Witness ==
  /\ output.op = "resolve"
  /\ IndexCandidate(output.arg) \in DOMAIN input
  /\ MdCandidate(output.arg) \in DOMAIN input
  /\ input[IndexCandidate(output.arg)] # input[MdCandidate(output.arg)]
  /\ output.result = [tag |-> "ok", val |-> input[IndexCandidate(output.arg)]]

\* C14: resolvePath succeeds exactly when resolve does, the path it returns is the
\* file whose content resolve returns, and both fail with the same
\* ContentNotFoundError otherwise.
C14_ResolvePathAgrees ==
  output.op = "resolvePath" =>
    /\ output.result.tag = resolve(input, output.arg).tag
    /\ output.result.tag \in {"ok", "ContentNotFoundError"}
    /\ output.result.tag = "ok" =>
         /\ output.result.val \in DOMAIN input
         /\ input[output.result.val] = resolve(input, output.arg).val
         /\ output.result.val =
              IF IndexCandidate(output.arg) \in DOMAIN input
                THEN IndexCandidate(output.arg) ELSE MdCandidate(output.arg)
    /\ output.result.tag = "ContentNotFoundError" =>
         output.result = resolve(input, output.arg)

C14_Witness ==
  /\ output.op = "resolvePath"
  /\ output.result = [tag |-> "ok", val |-> IndexCandidate(output.arg)]
  /\ MdCandidate(output.arg) \in DOMAIN input
  /\ input[IndexCandidate(output.arg)] # input[MdCandidate(output.arg)]

\* ---- the bundle files of the cache directory as a tree; _manifest.json,
\* _meta.json and the _compact.md files are left out
CacheTree ==
  [p \in {<<Chars[b], Chars[f]>> : <<b, f>> \in {x \in Bundles \X Files : disk[x[1]][x[2]] # 0}}
     |-> CHOOSE v \in 1..MaxVersion :
           \E x \in Bundles \X Files : p = <<Chars[x[1]], Chars[x[2]]>> /\ v = disk[x[1]][x[2]]]

\* C13: after a successful ensure(n), resolve([n]) succeeds if and only if
\* <base>/<n>/index.md exists.
C13_ResolveAfterEnsure ==
  (last.op = "ensure" /\ last.result = "ok") =>
    (resolve(CacheTree, <<Chars[last.arg]>>).tag = "ok" <=> disk[last.arg]["index.md"] # 0)

\* a bundle without index file was ensured, and resolve does not find it
C13_Witness ==
  /\ last.op = "ensure" /\ last.result = "ok"
  /\ last.written # {}
  /\ disk[last.arg]["index.md"] = 0
  /\ resolve(CacheTree, <<Chars[last.arg]>>) = ContentNotFoundError(<<Chars[last.arg]>>)

\* ========================================================== suggestSimilar
\* String.prototype.toLowerCase on the letters drawn
toLowerCase(str) ==
  [i \in DOMAIN str |-> CASE str[i] = "A" -> "a" [] str[i] = "B" -> "b" [] OTHER -> str[i]]

\* String.prototype.includes
includes(str, sub) ==
  \E i \in 0..(Len(str) - Len(sub)) : SubSeq(str, i + 1, i + Len(sub)) = sub

\* str.replace(/<suffix>$/, "")
dropSuffix(str, suffix) ==
  IF endsWith(str, suffix) THEN SubSeq(str, 1, Len(str) - Len(suffix)) ELSE str

\* str.replace(/\//g, " ")
slashesToSpaces(str) == [i \in DOMAIN str |-> IF str[i] = "/" THEN " " ELSE str[i]]

min3(x, y, z) == IF x <= y /\ x <= z THEN x ELSE IF y <= z THEN y ELSE z

\* one row of the matrix: row holds matrix[i][0 .. Len(row) - 1], prev is matrix[i - 1]
RECURSIVE matrixRow(_, _, _, _, _)
matrixRow(a, b, prev, i, row) ==
  IF Len(row) > Len(a) THEN row
  ELSE matrixRow(a, b, prev, i,
         Append(row, IF b[i] = a[Len(row)] THEN prev[Len(row)]
                     ELSE min3(prev[Len(row)] + 1, row[Len(row)] + 1, prev[Len(row) + 1] + 1)))

RECURSIVE matrixRows(_, _, _, _)
matrixRows(a, b, prev, i) ==
  IF i > Len(b) THEN prev
  ELSE matrixRows(a, b, matrixRow(a, b, prev, i, <<i>>), i + 1)

\* faulty variant of levenshtein: the difference of the lengths, no matrix
lengthDifference(a, b) == IF Len(a) >= Len(b) THEN Len(a) - Len(b) ELSE Len(b) - Len(a)

levenshtein(a, b) ==
  IF Len(a) = 0 THEN Len(b)
  ELSE IF Len(b) = 0 THEN Len(a)
  ELSE matrixRows(a, b, [j \in 1..(Len(a) + 1) |-> j - 1], 1)[Len(a) + 1]

maxSuggestions == 3

\* faulty variant of capReached: the loops never break
neverCapped(suggestions) == FALSE

\* if (suggestions.length >= maxSuggestions) break
capReached(suggestions) == Len(suggestions) >= maxSuggestions

\* file.replace(/\.md$/, "").replace(/\/index$/, "")
filePathOf(file) == dropSuffix(dropSuffix(file, MdExt), <<"/">> \o Chars["index"])

\* `${primerName} ${filePath.replace(/\//g, " ")}`
fullPathOf(primerName, filePath) == primerName \o <<" ">> \o slashesToSpaces(filePath)

suggestsSubPath(query, fullPath) ==
  \/ includes(toLowerCase(fullPath), query)
  \/ levenshtein(query, toLowerCase(fullPath)) < 4

\* for (const file of primerConfig.files)
RECURSIVE subPathLoop(_, _, _, _, _)
subPathLoop(primerName, files, query, suggestions, i) ==
  IF i > Len(files) \/ capReached(suggestions) THEN suggestions
  ELSE subPathLoop(primerName, files, query,
         IF /\ filePathOf(files[i]) # <<>>
            /\ filePathOf(files[i]) # Chars["index"]
            /\ suggestsSubPath(query, fullPathOf(primerName, filePathOf(files[i])))
           THEN Append(suggestions, fullPathOf(primerName, filePathOf(files[i])))
           ELSE suggestions,
         i + 1)

\* for (const name of Object.keys(manifestData.primers))
RECURSIVE nameLoop(_, _, _, _)
nameLoop(names, query, suggestions, i) ==
  IF i > Len(names) \/ capReached(suggestions) THEN suggestions
  ELSE nameLoop(names, query,
         IF levenshtein(query, toLowerCase(names[i])) < 3
           THEN Append(suggestions, names[i]) ELSE suggestions,
         i + 1)

\* the bundle names of the registries drawn, in the order of Object.keys
SuggestOrder == <<Chars["a"], Chars["b"], <<"B", "a">>, Chars["setup"]>>

keysOf(primers) == SelectSeq(SuggestOrder, LAMBDA n : n \in DOMAIN primers)

\* g: what manifest.get returned, g.ret.primers the primers record of the registry
suggestSimilar(g, segments) ==
  IF g.result # "ok" THEN [tag |-> g.result, val |-> <<>>]
  ELSE [tag |-> "ok",
        val |-> nameLoop(keysOf(g.ret), toLowerCase(join(segments, <<"/">>)),
                  IF Len(segments) > 0 /\ segments[1] # <<>> /\ segments[1] \in DOMAIN g.ret
                    THEN subPathLoop(segments[1], g.ret[segments[1]],
                                     toLowerCase(join(segments, <<"/">>)), <<>>, 1)
                    ELSE <<>>,
                  1)]

\* faulty variant of catchAllEmpty: the failure is passed on
noCatchAll(o) == o

\* main.ts: cache.suggestSimilar(path).pipe(Effect.catchAll(() => Effect.succeed([])))
catchAllEmpty(o) == IF o.tag = "ok" THEN o ELSE [tag |-> "ok", val |-> <<>>]

\* ---- the registries and queries suggestSimilar is applied to
FileLists ==
  {<<>>,
   <<Chars["index.md"]>>,
   <<Chars["setup.md"], <<"a", "b", ".", "m", "d">>>>,
   <<Chars["index.md"], Chars["setup.md"], <<"b", "/", "i", "n", "d", "e", "x", ".", "m", "d">>,
     <<"a", "b", ".", "m", "d">>, <<"b", "/", "a", ".", "m", "d">>>>}

Registries == UNION {[S -> FileLists] : S \in SUBSET Range(SuggestOrder)}

GetOutcomes ==
  {[result |-> "ok", ret |-> r] : r \in Registries}
    \cup {[result |-> e, ret |-> EmptyFcn] : e \in {"FetchError", "ManifestError", "PlatformError"}}

Queries ==
  {<<Chars["a"]>>, <<<<"A">>>>, <<Chars["b"]>>, <<Chars["a"], Chars["setup"]>>,
   <<Chars["a"], Chars["b"]>>, <<<<"z", "z", "z", "z", "z", "z", "z", "z", "z">>>>}

InitSuggest ==
  /\ CacheInit
  /\ input \in GetOutcomes
  /\ output = NoOutput

SuggestSimilar(segments) ==
  /\ output' = [op |-> "suggestSimilar", arg |-> segments,
                result |-> suggestSimilar(input, segments)]
  /\ UNCHANGED <<cacheVars, input>>

\* the suggestions as the command line obtains them
WithResolveErrors(segments) ==
  /\ output' = [op |-> "withResolveErrors", arg |-> segments,
                result |-> catchAllEmpty(suggestSimilar(input, segments))]
  /\ UNCHANGED <<cacheVars, input>>

NextSuggest ==
  \/ \E segments \in Queries : SuggestSimilar(segments)
  \/ \E segments \in Queries : WithResolveErrors(segments)

SpecSuggest == InitSuggest /\ [][NextSuggest]_vars

SubPathsIn(val) == {i \in DOMAIN val : includes(val[i], <<" ">>)}

\* C16: suggestSimilar never returns more than 3 entries, sub-paths and bundle
\* names together.
C16_AtMostThreeSuggestions ==
  (output.op = "suggestSimilar" /\ output.result.tag = "ok") =>
    Len(output.result.val) <= 3

\* a full list of sub-paths and bundle names, with a matching bundle name left out
C16_Witness ==
  /\ output.op = "suggestSimilar"
  /\ Len(output.result.val) = 3
  /\ SubPathsIn(output.result.val) \notin {{}, DOMAIN output.result.val}
  /\ \E n \in DOMAIN input.ret :
       /\ levenshtein(toLowerCase(join(output.arg, <<"/">>)), toLowerCase(n)) < 3
       /\ n \notin Range(output.result.val)

\* ============================================================== _meta.json
\* ---- JSON values
Num == [t |-> "num"]
\* a string that holds a timestamp or the ETag of a file (numbers of the model),
\* and a string that holds the ETag of the registry (a text of the model)
Str(x) == [t |-> "str", n |-> x]
StrOf(x) == [t |-> "str", s |-> x]
Obj(o) == [t |-> "obj", o |-> o]

\* the objects that have, for each key of choices, no member or one of its values
Objects(choices) ==
  {Obj(o) : o \in {f \in UNION {[S -> UNION Range(choices)] : S \in SUBSET DOMAIN choices} :
                     \A k \in DOMAIN f : f[k] \in choices[k]}}

isString(v) == v.t = "str"
optional(v, k, Ok(_)) == v.t = "obj" /\ (k \in DOMAIN v.o => Ok(v.o[k]))
required(v, k, Ok(_)) == v.t = "obj" /\ k \in DOMAIN v.o /\ Ok(v.o[k])
isRecordOf(v, Ok(_)) == v.t = "obj" /\ \A k \in DOMAIN v.o : Ok(v.o[k])

\* ---- the schemas of lib/meta
FileEtagEntry(v) == required(v, "etag", isString)
EtagsRecord(v) == isRecordOf(v, FileEtagEntry)
PrimerMetaEntry(v) == required(v, "fetchedAt", isString) /\ optional(v, "etags", EtagsRecord)
PrimersRecord(v) == isRecordOf(v, PrimerMetaEntry)
MetaSchema(v) ==
  /\ optional(v, "manifestFetchedAt", isString)
  /\ optional(v, "manifestEtag", isString)
  /\ optional(v, "primers", PrimersRecord)

\* the Meta a valid value decodes to; an optional member that is absent is
\* undefined (NoTime, "none", no etags, no primers)
MemberOr(o, k, part, undefined) == IF k \in DOMAIN o THEN o[k][part] ELSE undefined
MetaOf(v) ==
  [manifestFetchedAt |-> MemberOr(v.o, "manifestFetchedAt", "n", NoTime),
   manifestEtag |-> MemberOr(v.o, "manifestEtag", "s", "none"),
   primers |-> [n \in DOMAIN MemberOr(v.o, "primers", "o", EmptyFcn) |->
                  [fetchedAt |-> v.o.primers.o[n].o.fetchedAt.n,
                   etags |-> [f \in DOMAIN MemberOr(v.o.primers.o[n].o, "etags", "o", EmptyFcn) |->
                                v.o.primers.o[n].o.etags.o[f].o.etag.n]]]]

\* Schema.encode: the members that are undefined are left out
Members(choices) == [k \in {x \in DOMAIN choices : choices[x].t # "undefined"} |-> choices[k]]
JsonOf(meta) ==
  Obj(Members(
    [manifestFetchedAt |-> IF meta.manifestFetchedAt = NoTime THEN [t |-> "undefined"]
                           ELSE Str(meta.manifestFetchedAt),
     manifestEtag |-> IF meta.manifestEtag = "none" THEN [t |-> "undefined"] ELSE StrOf(meta.manifestEtag),
     primers |-> IF DOMAIN meta.primers = {} THEN [t |-> "undefined"]
                 ELSE Obj([n \in DOMAIN meta.primers |->
                        Obj([fetchedAt |-> Str(meta.primers[n].fetchedAt),
                             etags |-> Obj([f \in DOMAIN meta.primers[n].etags |->
                                         Obj([etag |-> Str(meta.primers[n].etags[f])])])])])]))

\* ---- the file: absent, unreadable, or a text. A text is garbage or the first
\* part chunks of the serialization of a value; all MaxChunks of them are the
\* whole serialization
Text(v, part) == [file |-> "text", form |-> "json", value |-> v, part |-> part]
NoText(file, form) == [file |-> file, form |-> form, value |-> Num, part |-> MaxChunks]

\* JSON.parse: a proper prefix of the serialization of a value does not parse
parseJson(text) == text.form = "json" /\ text.part = MaxChunks

\* faulty variant of orElseSucceed: the failure of the decoder is passed on
orElseFail(decoded) == decoded

\* Effect.orElseSucceed(() => ({}))
orElseSucceed(decoded) == IF decoded.tag = "ok" THEN decoded ELSE [tag |-> "ok", val |-> EmptyMeta]

\* Schema.decode(MetaFromJson)(text)
decodeMetaFromJson(text) ==
  IF parseJson(text) /\ MetaSchema(text.value) THEN [tag |-> "ok", val |-> MetaOf(text.value)]
  ELSE [tag |-> "ParseError", val |-> EmptyMeta]

\* readMeta of lib/meta, on the file itself
readMetaFile(f) ==
  IF f.file = "absent" THEN [tag |-> "ok", val |-> EmptyMeta]
  ELSE IF f.file = "unreadable" THEN [tag |-> "PlatformError", val |-> EmptyMeta]
  ELSE orElseSucceed(decodeMetaFromJson(f))

\* ---- the files drawn: every member absent, of its type, or of another type
JsonMetas ==
  {Num} \cup Objects(
    [manifestFetchedAt |-> {Num, Str(0)},
     manifestEtag |-> {Num, StrOf("R2")},
     primers |-> {Num} \cup Objects([x \in {"a"} |->
       {Num} \cup Objects(
         [fetchedAt |-> {Num, Str(0)},
          etags |-> {Num} \cup Objects([y \in {"index.md"} |->
                      Objects([etag |-> {Num, Str(1)}])])])])])

MetaFiles ==
  {NoText("absent", ""), NoText("unreadable", ""), NoText("text", "garbage")}
    \cup {Text(v, MaxChunks) : v \in JsonMetas}

\* the Metas the services write
WrittenMetas ==
  {[EmptyMeta EXCEPT !.manifestFetchedAt = 0, !.manifestEtag = "R2"],
   [EmptyMeta EXCEPT !.primers = [n \in {"a"} |-> [fetchedAt |-> 0, etags |-> EmptyFcn]]],
   [EmptyMeta EXCEPT !.manifestFetchedAt = 0, !.manifestEtag = "R2",
                     !.primers = [n \in {"a"} |-> [fetchedAt |-> 0,
                                                   etags |-> [f \in {"index.md"} |-> 1]]]]}

NoWrite == [tag |-> "none", val |-> EmptyMeta]

\* input: the file, the Meta being written (next) and what a read gave before
\* the write began (prev)
InitMeta ==
  /\ CacheInit
  /\ input \in {[file |-> f, prev |-> NoWrite, next |-> NoWrite] : f \in MetaFiles}
  /\ output = NoOutput

\* a reader, at any moment
ReadMeta ==
  /\ output' = [op |-> "readMeta", arg |-> input.file, result |-> readMetaFile(input.file)]
  /\ UNCHANGED <<cacheVars, input>>

\* writeMeta, first step: fs.writeFileString opens the file, which truncates it
WriteMetaOpen(meta) ==
  /\ input.next = NoWrite
  /\ input.file.file # "unreadable"
  /\ input' = [file |-> Text(JsonOf(meta), 0), prev |-> readMetaFile(input.file),
                next |-> [tag |-> "ok", val |-> meta]]
  /\ UNCHANGED <<cacheVars, output>>

\* writeMeta, further steps: one more chunk of the text is in the file
WriteMetaChunk ==
  /\ input.next # NoWrite
  /\ input.file.part < MaxChunks
  /\ input' = [input EXCEPT !.file.part = @ + 1]
  /\ UNCHANGED <<cacheVars, output>>

NextMeta ==
  \/ ReadMeta
  \/ \E meta \in WrittenMetas : WriteMetaOpen(meta)
  \/ WriteMetaChunk

SpecMeta == InitMeta /\ [][NextMeta]_vars

\* the Metas in the older format: no manifestEtag, no etags in any entry
OldFormat(v) ==
  /\ MetaSchema(v)
  /\ "manifestEtag" \notin DOMAIN v.o
  /\ "primers" \in DOMAIN v.o /\ DOMAIN v.o.primers.o # {}
  /\ \A n \in DOMAIN v.o.primers.o : "etags" \notin DOMAIN v.o.primers.o[n].o

\* C17: readMeta returns the empty Meta when the file is missing, is not JSON or
\* fails the schema, never a parse or validation error; a Meta without
\* manifestEtag and without etags is accepted.
C17_ReadMetaNeverFailsOnContent ==
  output.op = "readMeta" =>
    /\ output.result.tag = (IF output.arg.file = "unreadable" THEN "PlatformError" ELSE "ok")
    /\ output.arg.file = "absent" => output.result.val = EmptyMeta
    /\ (output.arg.file = "text" /\ output.arg.form = "garbage") =>
         output.result.val = EmptyMeta
    /\ (output.arg.file = "text" /\ output.arg.form = "json" /\ ~MetaSchema(output.arg.value)) =>
         output.result.val = EmptyMeta
    /\ (output.arg.file = "text" /\ output.arg.form = "json" /\ output.arg.part = MaxChunks
          /\ OldFormat(output.arg.value)) =>
         /\ DOMAIN output.result.val.primers = DOMAIN output.arg.value.o.primers.o
         /\ output.result.val.manifestEtag = "none"
         /\ output.result.val.manifestFetchedAt =
              MemberOr(output.arg.value.o, "manifestFetchedAt", "n", NoTime)
         /\ \A n \in DOMAIN output.result.val.primers :
              /\ output.result.val.primers[n].etags = EmptyFcn
              /\ output.result.val.primers[n].fetchedAt =
                   output.arg.value.o.primers.o[n].o.fetchedAt.n

\* a file in the older format was read and its bundle entry is in the result
C17_Witness ==
  /\ output.op = "readMeta"
  /\ output.arg.file = "text" /\ output.arg.form = "json" /\ output.arg.part = MaxChunks
  /\ OldFormat(output.arg.value)
  /\ "manifestFetchedAt" \in DOMAIN output.arg.value.o
  /\ output.result.tag = "ok"
  /\ DOMAIN output.result.val.primers = {"a"}

\* C18: a read that overlaps a write of the Meta gives the complete previous
\* Meta or the complete new Meta.
C18_ReadSeesOldOrNewMeta ==
  (output.op = "readMeta" /\ input.next # NoWrite) =>
    output.result \in {input.prev, input.next}

\* ------------------------------------------------- lifecycle of the Meta
Operations == {"get", "refresh", "ensure", "refreshInBackground", "refreshAll"}
BundleOperations == {"ensure", "refreshInBackground", "refreshAll"}

\* C19: no operation removes a bundle entry from the Meta, also when the registry
\* does not list the bundle any more, and an operation on bundles that sends no
\* registry request leaves the stored registry ETag and timestamp as they are.
C19_MetaEntriesNeverDeleted ==
  [][last'.op \in Operations =>
       /\ Installed \subseteq Installed'
       /\ (last'.op \in BundleOperations /\ last'.mreqs = <<>>) =>
            /\ MetaNow'.manifestEtag = MetaNow.manifestEtag
            /\ MetaNow'.manifestFetchedAt = MetaNow.manifestFetchedAt]_vars

\* the registry was fetched anew and written to the Meta, it does not list
\* bundle b, and the entry of b is still there
C19_Witness ==
  /\ last.op = "refresh" /\ last.result = "ok"
  /\ manifestFile = "R1" /\ MetaNow.manifestEtag = "R1"
  /\ "b" \notin DOMAIN ManifestPrimers(manifestFile)
  /\ "b" \in Installed

AllNotModified(l) == l.freqs # {} /\ \A rq \in l.freqs : rq.tag = "notModified"

\* C20 as stated: a registry refresh answered 304, and a bundle refresh in which
\* every file answers 304, record a new fetched-at timestamp in the Meta.
C20_NotModifiedRecordsTimestamp ==
  /\ (last.op = "refresh" /\ last.result = "ok" /\ last.mreqs[1].status = 304) =>
       MetaNow.manifestFetchedAt = now
  /\ (last.op = "refreshInBackground" /\ last.caught = "" /\ AllNotModified(last)) =>
       (last.arg \in Installed /\ MetaNow.primers[last.arg].fetchedAt = now)

\* C20, amended: the Meta is written when a body was stored: a registry request
\* answered 200 records the registry timestamp, an operation that wrote files of
\* a bundle records the timestamp of that bundle; a registry refresh answered 304
\* from a valid local copy, and a bundle refresh that wrote no file, leave the
\* meta file as it was.
C20_MetaWrittenOnlyWithContent ==
  [][last'.op \in Operations =>
       /\ (last'.op = "refresh" /\ last'.result = "ok" /\ Len(last'.mreqs) = 1
             /\ last'.mreqs[1].status = 304) => metaFile' = metaFile
       /\ (last'.op \in {"refreshInBackground", "refreshAll"} /\ last'.written = {}
             /\ \A i \in DOMAIN last'.mreqs : last'.mreqs[i].status # 200) =>
            metaFile' = metaFile
       /\ (last'.result = "ok" /\ \E i \in DOMAIN last'.mreqs : last'.mreqs[i].status = 200) =>
            MetaNow'.manifestFetchedAt = now
       /\ (last'.op \in BundleOperations /\ last'.result \in {"ok", "void"}
             /\ last'.caught = "") =>
            \A w \in last'.written :
              w[1] \in Installed' /\ MetaNow'.primers[w[1]].fetchedAt = now]_vars

\* a bundle refresh in which every file answered 304 left the older timestamp
C20_Witness ==
  /\ last.op = "refreshInBackground" /\ last.caught = ""
  /\ AllNotModified(last)
  /\ last.arg \in Installed
  /\ MetaNow.primers[last.arg].fetchedAt < now

\* ------------------------------------------------- entries of the Meta
\* C21 as stated: after every successful ensure(n) the Meta holds an entry of n
\* whose fetchedAt is the time of that ensure.
C21_EnsureLeavesMetaEntry ==
  (last.op = "ensure" /\ last.result = "ok") =>
    /\ last.arg \in Installed
    /\ MetaNow.primers[last.arg].fetchedAt = now

\* C22: an entry of the Meta appears only in an ensure or a refresh of that
\* bundle which wrote at least one file of it, so every bundle with an entry has
\* a file on disk.
C22_EntryCreatedWithFiles ==
  [][last'.op \in Operations =>
       /\ \A n \in Installed' \ Installed :
            /\ last'.op \in BundleOperations
            /\ last'.op \in {"ensure", "refreshInBackground"} => last'.arg = n
            /\ \E f \in Files : <<n, f>> \in last'.written /\ disk'[n][f] # 0
       /\ \A n \in Installed' : \E f \in Files : disk'[n][f] # 0]_vars

\* a refresh of b created the entry of b, which the meta file had lost
C22_Witness ==
  /\ last.op = "refreshInBackground" /\ last.arg = "b"
  /\ "b" \in Installed
  /\ \E f \in Files : <<"b", f>> \in last.written
  /\ \E rq \in last.freqs : rq.inm = NoEtag /\ disk[rq.b][rq.f] # 0

\* ------------------------------------------------- the batch of file requests
\* One ensure (input.sizes = <<number of missing files>>), one refreshInBackground
\* (<<number of files of the bundle>>) or one refreshAll (the files of each
\* installed bundle, in turn), step by step: Effect.all starts the requests in
\* order, at most `concurrency` of them at a time, and returns when all have
\* answered; the write loop, the Meta and the compact index follow.
MaxFiles == 21

\* { concurrency: 20 }
concurrency == 20

BatchSizes == {0, 1, concurrency, MaxFiles}

BatchInputs ==
  {[op |-> o, sizes |-> <<n>>] : o \in {"ensure", "refreshInBackground"}, n \in BatchSizes}
    \cup {[op |-> "refreshAll", sizes |-> <<n, m>>] : n \in {1, MaxFiles}, m \in {1, MaxFiles}}

\* what a request of the batch can end with: ensure sends no If-None-Match
FetchOutcomes(op) ==
  IF op = "ensure" THEN {"content", "FetchError"}
  ELSE {"content", "notModified", "FetchError"}

\* faulty variant of underLimit: { concurrency: "unbounded" }
unbounded(n) == TRUE

\* a further request starts while fewer than `concurrency` are running
underLimit(n) == n < concurrency

\* faulty variant of allDone: the loop takes each result as it arrives
firstDone(started, running, n) == started > running

\* yield* Effect.all(...): the results are there when every request has answered
allDone(started, running, n) == started = n /\ running = 0

\* the write loop is over: ensure always writes the Meta, refreshPrimer only
\* if (anyUpdated)
afterWrites(op, s) ==
  IF op = "ensure" \/ s.anyUpdated THEN [s EXCEPT !.pc = "meta"] ELSE [s EXCEPT !.pc = "next"]

\* Effect.all has returned `contents` results that carry a body
afterFetch(op, s) ==
  IF s.contents > s.written[s.i] THEN [s EXCEPT !.pc = "write"] ELSE afterWrites(op, s)

\* the operation reaches bundle i of its list
BundleStart(in, s, i) ==
  IF i > Len(in.sizes) THEN [s EXCEPT !.pc = "done"]
  ELSE IF in.op = "ensure" /\ in.sizes[i] = 0 THEN [s EXCEPT !.pc = "done", !.i = i]
  ELSE Bind([s EXCEPT !.pc = "fetch", !.i = i, !.started = 0, !.contents = 0,
                      !.anyUpdated = FALSE],
            LAMBDA t : IF allDone(0, 0, in.sizes[i]) THEN afterFetch(in.op, t) ELSE t)

BatchIdle(in) ==
  [pc |-> "idle", i |-> 0, started |-> 0, contents |-> 0, anyUpdated |-> FALSE,
   inflight |-> [j \in 1..Len(in.sizes) |-> 0],
   written |-> [j \in 1..Len(in.sizes) |-> 0],
   metaWrites |-> [j \in 1..Len(in.sizes) |-> 0]]

InitBatch ==
  /\ CacheInit
  /\ input \in BatchInputs
  /\ output = BundleStart(input, BatchIdle(input), 1)

StartFetch ==
  /\ output.pc = "fetch"
  /\ output.started < input.sizes[output.i]
  /\ underLimit(output.inflight[output.i])
  /\ output' = [output EXCEPT !.started = @ + 1, !.inflight[output.i] = @ + 1]
  /\ UNCHANGED <<cacheVars, input>>

\* a request answers; in ensure a failure fails Effect.all, which interrupts the
\* requests still running; in refreshPrimer it is caught and gives null
CompleteFetch(r) ==
  /\ output.pc = "fetch"
  /\ output.inflight[output.i] > 0
  /\ r \in FetchOutcomes(input.op)
  /\ output' =
       IF input.op = "ensure" /\ r = "FetchError"
         THEN [output EXCEPT !.pc = "failed", !.inflight[output.i] = 0]
       ELSE Bind([output EXCEPT !.inflight[output.i] = @ - 1,
                                !.contents = IF r = "content" THEN @ + 1 ELSE @],
                 LAMBDA t : IF allDone(t.started, t.inflight[t.i], input.sizes[t.i])
                              THEN afterFetch(input.op, t) ELSE t)
  /\ UNCHANGED <<cacheVars, input>>

\* one turn of the write loop: fs.writeFileString(filePath, result.content)
WriteFile ==
  /\ output.pc = "write"
  /\ output.written[output.i] < output.contents
  /\ output' =
       Bind([output EXCEPT !.written[output.i] = @ + 1, !.anyUpdated = TRUE],
            LAMBDA t : IF t.written[t.i] < t.contents THEN t ELSE afterWrites(input.op, t))
  /\ UNCHANGED <<cacheVars, input>>

WriteMetaOfBundle ==
  /\ output.pc = "meta"
  /\ output' = [output EXCEPT !.pc = "compact", !.metaWrites[output.i] = @ + 1]
  /\ UNCHANGED <<cacheVars, input>>

\* generateCompact, and _compact.md when it is not null
WriteCompactOfBundle ==
  /\ output.pc = "compact"
  /\ output' = [output EXCEPT !.pc = "next"]
  /\ UNCHANGED <<cacheVars, input>>

\* refreshAll: the next turn of `for (const primerName of installedPrimers)`
NextBundle ==
  /\ output.pc = "next"
  /\ output' = BundleStart(input, output, output.i + 1)
  /\ UNCHANGED <<cacheVars, input>>

\* a filesystem call of the write loop, of writeMeta or of the compact index fails
FsFails ==
  /\ output.pc \in {"write", "meta", "compact"}
  /\ output' = [output EXCEPT !.pc = "failed"]
  /\ UNCHANGED <<cacheVars, input>>

NextBatch ==
  \/ StartFetch
  \/ \E r \in {"content", "notModified", "FetchError"} : CompleteFetch(r)
  \/ WriteFile
  \/ WriteMetaOfBundle
  \/ WriteCompactOfBundle
  \/ NextBundle
  \/ FsFails

SpecBatch == InitBatch /\ [][NextBatch]_vars

RECURSIVE SumTo(_, _)
SumTo(f, n) == IF n = 0 THEN 0 ELSE f[n] + SumTo(f, n - 1)

\* C23: at no moment of an ensure, a refreshInBackground or a refreshAll are
\* more than 20 file requests in flight, over all bundles of the operation.
C23_AtMostTwentyInFlight ==
  SumTo(output.inflight, Len(input.sizes)) <= concurrency

\* twenty requests are running and a further file of the bundle waits, in the
\* second bundle of a refreshAll
C23_Witness ==
  /\ input.op = "refreshAll" /\ output.i = 2
  /\ output.inflight[2] = concurrency
  /\ output.started < input.sizes[2]

\* C24: while a request of the batch is in flight no file of the bundle and no
\* Meta has been written by the operation, and the Meta is written at most once
\* for each bundle.
C24_CollectedBeforeWrites ==
  \A j \in 1..Len(input.sizes) :
    /\ output.inflight[j] > 0 => (output.written[j] = 0 /\ output.metaWrites[j] = 0)
    /\ output.metaWrites[j] <= 1

\* more files than the limit were fetched and written, and the Meta written once
C24_Witness ==
  /\ output.pc = "done"
  /\ \E j \in 1..Len(input.sizes) :
       /\ input.sizes[j] > concurrency
       /\ output.written[j] = input.sizes[j]
       /\ output.metaWrites[j] = 1

\* ------------------------------------------------- a bundle the registry lacks
\* C25: refreshInBackground(n), with a registry that does not list n, asks the
\* origin for no file, leaves the directory, the files and the compact index of
\* n and the bundle entries of the Meta as they were, and ends without error.
C25_UnlistedRefreshIsNoOp ==
  [][(/\ last'.op = "refreshInBackground" /\ last'.caught = ""
      /\ LocalCopyValid'
      /\ last'.arg \notin DOMAIN ManifestPrimers(manifestFile')) =>
       /\ last'.result = "void"
       /\ last'.freqs = {} /\ last'.written = {}
       /\ disk'[last'.arg] = disk[last'.arg]
       /\ (last'.arg \in dirs') = (last'.arg \in dirs)
       /\ compact'[last'.arg] = compact[last'.arg]
       /\ MetaNow'.primers = MetaNow.primers]_vars

\* the registry fetched by the operation itself does not list b, which the
\* origin still serves: the refresh of b asked for nothing and made no directory
C25_Witness ==
  /\ last.op = "refreshInBackground" /\ last.arg = "b" /\ last.caught = ""
  /\ Len(last.mreqs) = 1 /\ last.mreqs[1].status = 200
  /\ manifestFile = "R1"
  /\ originFile["b"]["index.md"] # 0
  /\ last.freqs = {} /\ "b" \notin dirs

\* =============================================================== lib/compact
\* Texts are sequences of characters; "u2014" stands for the one character
\* U+2014 (em dash). A directory tree is a function from the paths of its
\* regular files (sequences of names, below the primers directory) to their text.
WhiteSpace == {" ", "\t", "\n", "\r"}

\* String.prototype.startsWith
startsWith(str, prefix) ==
  /\ Len(str) >= Len(prefix)
  /\ SubSeq(str, 1, Len(prefix)) = prefix

\* String.prototype.slice(k)
slice(str, k) == SubSeq(str, k + 1, Len(str))

\* String.prototype.trim
RECURSIVE trim(_)
trim(str) ==
  IF str = <<>> THEN str
  ELSE IF str[1] \in WhiteSpace THEN trim(Tail(str))
  ELSE IF str[Len(str)] \in WhiteSpace THEN trim(SubSeq(str, 1, Len(str) - 1))
  ELSE str

\* String.prototype.split(ch)
RECURSIVE split(_, _)
split(str, ch) ==
  IF \A i \in DOMAIN str : str[i] # ch THEN <<str>>
  ELSE Bind(CHOOSE i \in DOMAIN str : str[i] = ch /\ \A j \in 1..(i - 1) : str[j] # ch,
            LAMBDA k : <<SubSeq(str, 1, k - 1)>> \o split(slice(str, k), ch))

extractTitle(content) ==
  Bind(split(content, "\n"), LAMBDA lines :
  Bind({i \in DOMAIN lines : startsWith(lines[i], <<"#", " ">>)}, LAMBDA titles :
    IF titles = {} THEN <<>>
    ELSE trim(slice(lines[CHOOSE i \in titles : \A j \in titles : i <= j], 2))))

\* the loop of extractDescription, at line i
RECURSIVE descriptionLoop(_, _, _)
descriptionLoop(lines, i, foundTitle) ==
  IF i > Len(lines) THEN <<>>
  ELSE IF startsWith(lines[i], <<"#", " ">>) THEN descriptionLoop(lines, i + 1, TRUE)
  ELSE IF foundTitle /\ trim(lines[i]) # <<>> /\ ~startsWith(lines[i], <<"#">>)
    THEN trim(lines[i])
  ELSE descriptionLoop(lines, i + 1, foundTitle)

extractDescription(content) == descriptionLoop(split(content, "\n"), 1, FALSE)

extractH2Headings(content) ==
  Bind(SelectSeq(split(content, "\n"), LAMBDA line : startsWith(line, <<"#", "#", " ">>)),
       LAMBDA found : [i \in DOMAIN found |-> trim(slice(found[i], 3))])

\* faulty variant of fileToTopic: a trailing /index stays
fileToTopicKeepsIndex(file) == dropSuffix(file, MdExt)

\* file.replace(/\.md$/, "").replace(/\/index$/, "")
fileToTopic(file) == dropSuffix(dropSuffix(file, MdExt), <<"/", "i", "n", "d", "e", "x">>)

\* fs.readDirectory: the names in dir, in the order the platform gives, which is
\* one of the orders of all names
readDirectory(fs, dir, order) == SelectSeq(order, LAMBDA entry : exists(fs, Append(dir, entry)))

\* base ? `${base}/${entry}` : entry
relPath(base, entry) == IF base # <<>> THEN base \o <<"/">> \o entry ELSE entry

RECURSIVE collectFiles(_, _, _, _)
collectFiles(fs, dir, base, order) ==
  Bind(readDirectory(fs, dir, order), LAMBDA entries :
    join([i \in DOMAIN entries |->
            IF isDirectory(fs, Append(dir, entries[i]))
              THEN collectFiles(fs, Append(dir, entries[i]), relPath(base, entries[i]), order)
            ELSE IF endsWith(entries[i], MdExt) THEN <<relPath(base, entries[i])>>
            ELSE <<>>],
         <<>>))

\* the characters of the names drawn, by UTF-16 code unit
CodeOrder ==
  <<".", "/", "_", "a", "b", "c", "d", "e", "f", "g", "h", "i", "j", "k", "l", "m", "n",
    "o", "p", "q", "r", "s", "t", "u", "v", "w", "x", "y", "z">>

codeUnit(ch) == CHOOSE i \in DOMAIN CodeOrder : CodeOrder[i] = ch

\* a < b on strings
RECURSIVE lessThan(_, _)
lessThan(a, b) ==
  IF b = <<>> THEN FALSE
  ELSE IF a = <<>> THEN TRUE
  ELSE IF a[1] # b[1] THEN codeUnit(a[1]) < codeUnit(b[1])
  ELSE lessThan(Tail(a), Tail(b))

\* faulty variant of toSorted: the order of the listing stays
unsorted(arr) == arr

\* Array.prototype.toSorted() on strings
RECURSIVE toSorted(_)
toSorted(arr) ==
  IF arr = <<>> THEN arr
  ELSE Bind(CHOOSE i \in DOMAIN arr : \A j \in DOMAIN arr : ~lessThan(arr[j], arr[i]),
            LAMBDA k : <<arr[k]>> \o
                       toSorted(SubSeq(arr, 1, k - 1) \o SubSeq(arr, k + 1, Len(arr))))

IndexMd == <<"i", "n", "d", "e", "x", ".", "m", "d">>
CompactMd == <<"_", "c", "o", "m", "p", "a", "c", "t", ".", "m", "d">>

Directive ==
  <<"I", "M", "P", "O", "R", "T", "A", "N", "T", ":", " ", "P", "r", "e", "f", "e", "r", " ", "p",
      "r", "i", "m", "e", "r", "-", "l", "e", "d", " ", "r", "e", "a", "s", "o", "n", "i", "n",
          "g", " ", "o", "v", "e", "r", " ", "p", "r", "e", "-", "t", "r", "a", "i", "n", "i", "n",
              "g", "-", "l", "e", "d", " ", "r", "e", "a", "s", "o", "n", "i", "n", "g", ".", " ",
                  "R", "e", "a", "d", " ", "s", "u", "b", "t", "o", "p", "i", "c", " ", "f", "i",
                      "l", "e", "s", " ", "b", "e", "f", "o", "r", "e", " ", "r", "e", "l", "y",
                          "i", "n", "g", " ", "o", "n", " ", "t", "r", "a", "i", "n", "i", "n",
                              "g", " ", "d", "a", "t", "a", ".">>

\* faulty variant of indexExists: generation goes on without asking
indexAssumed(fs, primerDir) == TRUE

\* yield* fs.exists(indexPath)
indexExists(fs, primerDir) == exists(fs, Append(primerDir, IndexMd))

\* one row of the table
tableRow(primerName, fs, primerDir, file) ==
  Bind(extractH2Headings(fs[primerDir \o split(file, "/")]), LAMBDA headings :
  Bind(join(headings, <<",", " ">>), LAMBDA joined :
    <<"|", " ">> \o fileToTopic(file) \o <<" ", "|",
        " ">> \o (IF joined # <<>> THEN joined ELSE <<"u2014">>)
      \o <<" ", "|", " ", "~", "/", ".", "p", "r", "i", "m", "e", "r",
          "/">> \o primerName \o <<"/">> \o file \o <<" ", "|">>))

compactLines(title, description, rows) ==
  <<<<"#", " ">> \o title, <<>>, description, <<>>, Directive>>
    \o (IF Len(rows) > 0
          THEN <<<<>>, <<"#", "#", " ", "S", "u", "b", "t", "o", "p", "i", "c", "s">>, <<>>, <<"|",
              " ", "T", "o", "p", "i", "c", " ", "|", " ", "S", "e", "c", "t", "i", "o", "n", "s",
                  " ", "|", " ", "F", "i", "l", "e", " ", "|">>, <<"|", "-", "-", "-", "|", "-",
                      "-", "-", "|", "-", "-", "-", "|">>>>
                 \o rows
          ELSE <<>>)
    \o <<<<>>>>

Null == [tag |-> "null"]

generateCompactText(primerName, fs, primerDir, order) ==
  IF ~indexExists(fs, primerDir) THEN Null
  ELSE Bind(readFileString(fs, Append(primerDir, IndexMd)), LAMBDA indexContent :
    IF indexContent.tag # "ok" THEN indexContent
    ELSE
      Bind(toSorted(SelectSeq(collectFiles(fs, primerDir, <<>>, order),
                              LAMBDA f : f # IndexMd /\ f # CompactMd)),
           LAMBDA subtopicFiles :
        [tag |-> "ok",
         val |-> join(compactLines(extractTitle(indexContent.val),
                                   extractDescription(indexContent.val),
                                   [i \in DOMAIN subtopicFiles |->
                                      tableRow(primerName, fs, primerDir, subtopicFiles[i])]),
                      <<"\n">>)]))

\* if (compact !== null) fs.writeFileString(path.join(primerDir, "_compact.md"), compact)
writeCompactFile(fs, primerDir, compactText) ==
  IF compactText.tag = "ok" THEN Put(fs, Append(primerDir, CompactMd), compactText.val) ELSE fs

\* the loop of generateAllCompact, at entry i of the sorted entries
RECURSIVE allCompactLoop(_, _, _, _, _)
allCompactLoop(fs, entries, order, i, generated) ==
  IF i > Len(entries) THEN [fs |-> fs, tag |-> "ok", val |-> generated]
  ELSE IF startsWith(entries[i], <<"_">>) \/ ~isDirectory(fs, <<entries[i]>>)
    THEN allCompactLoop(fs, entries, order, i + 1, generated)
  ELSE Bind(generateCompactText(entries[i], fs, <<entries[i]>>, order), LAMBDA content :
    IF content = Null THEN allCompactLoop(fs, entries, order, i + 1, generated)
    ELSE IF content.tag # "ok" THEN [fs |-> fs, tag |-> content.tag, val |-> generated]
    ELSE allCompactLoop(writeCompactFile(fs, <<entries[i]>>, content), entries, order, i + 1,
                        Append(generated, entries[i])))

generateAllCompact(fs, order) ==
  allCompactLoop(fs, toSorted(readDirectory(fs, <<>>, order)), order, 1, <<>>)

\* ---- the primers directories and listing orders the generator is applied to
Alpha == <<"a", "l", "p", "h", "a">>
Beta == <<"b", "e", "t", "a">>

IndexContents ==
  {<<"#", " ", "A", "l", "p", "h", "a", "\n", "\n", "D", "o", "e", "s", " ", "A", " ", "t", "h",
      "i", "n", "g", "s", ".", "\n">>,
   <<"-", "-", "-", "\n", " ", " ", "#", " ", "A", "l", "p", "h", "a", "\n", "#", " ", "A", "l",
       "p", "h", "a", " ", " ", "\n", "#", "#", " ", "I", "n", "s", "t", "a", "l", "l", "\n", " ",
           " ", "D", "o", "e", "s", " ", "A", " ", "t", "h", "i", "n", "g", "s", ".", " ", "\n">>,
   <<"D", "o", "e", "s", " ", "A", " ", "t", "h", "i", "n", "g", "s", ".", "\n", "#", "A", "l",
       "p", "h", "a">>,
   <<"#", " ", "A", "l", "p", "h", "a">>,
   <<"#", " ", "A", "l", "p", "h", "a", "\n", "#", " ", "B", "e", "t", "a", "\n", "\t", "\n", "D",
       "o", "e", "s", " ", "A", " ", "t", "h", "i", "n", "g", "s", ".">>}

SubContents ==
  {<<"#", " ", "S", "e", "t", "u", "p", "\n", "\n", "#", "#", " ", "I", "n", "s", "t", "a", "l",
      "l", "\n">>,
   <<"#", "#", " ", "I", "n", "s", "t", "a", "l", "l", "\n", "t", "e", "x", "t", "\n", "#", "#",
       " ", " ", "C", "o", "n", "f", "i", "g", "u", "r", "e", " ", "\n">>,
   <<"J", "u", "s", "t", " ", "s", "o", "m", "e", " ", "n", "o", "t", "e", "s", ".", "\n">>,
   <<"#", "#", "#", " ", "I", "n", "s", "t", "a", "l", "l", "\n", "#", "#", "I", "n", "s", "t",
       "a", "l", "l", "\n", " ", "#", "#", " ", "I", "n", "s", "t", "a", "l", "l">>}

\* the files of a tree, each with the texts it can hold
CompactChoices ==
  [p \in {<<Alpha, IndexMd>>, <<Alpha, <<"s", "e", "t", "u", "p", ".", "m", "d">>>>, <<Alpha,
      CompactMd>>,
          <<Alpha, <<"n", "o", "t", "e", "s", ".", "t", "x", "t">>>>, <<Alpha, <<"c", "o", "r",
              "e">>, IndexMd>>,
          <<Alpha, <<"c", "o", "r", "e">>, <<"g", "o", "t", "c", "h", "a", "s", ".", "m", "d">>>>,
              <<Beta, <<"s", "e", "t", "u", "p", ".", "m", "d">>>>,
          <<<<"_", "m", "a", "n", "i", "f", "e", "s", "t", ".", "j", "s", "o", "n">>>>} |->
     IF p = <<Alpha, IndexMd>> THEN IndexContents
     ELSE IF p = <<Alpha, <<"s", "e", "t", "u", "p", ".", "m", "d">>>> THEN SubContents
     ELSE IF p = <<Alpha, <<"c", "o", "r", "e">>, IndexMd>> THEN {<<"#", "#", " ", "I", "n", "s",
         "t", "a", "l", "l", "\n", "t", "e", "x", "t", "\n", "#", "#", " ", " ", "C", "o", "n",
             "f", "i", "g", "u", "r", "e", " ", "\n">>}
     ELSE IF p = <<Alpha, <<"c", "o", "r", "e">>, <<"g", "o", "t", "c", "h", "a", "s", ".", "m",
         "d">>>> THEN {<<"J", "u", "s", "t", " ", "s", "o", "m", "e", " ", "n", "o", "t", "e", "s",
             ".", "\n">>}
     ELSE IF p = <<Beta, <<"s", "e", "t", "u", "p", ".", "m", "d">>>> THEN {<<"#", " ", "S", "e",
         "t", "u", "p", "\n", "\n", "#", "#", " ", "I", "n", "s", "t", "a", "l", "l", "\n">>}
     ELSE {<<"o", "l", "d">>}]

\* index.md, setup.md, the old _compact.md and the files of core may be absent
OptionalPaths ==
  {<<Alpha, IndexMd>>, <<Alpha, <<"s", "e", "t", "u", "p", ".", "m", "d">>>>, <<Alpha, CompactMd>>,
   <<Alpha, <<"c", "o", "r", "e">>, IndexMd>>, <<Alpha, <<"c", "o", "r", "e">>, <<"g", "o", "t",
       "c", "h", "a", "s", ".", "m", "d">>>>}

RECURSIVE TreesOver(_)
TreesOver(paths) ==
  IF paths = {} THEN {EmptyFcn}
  ELSE Bind(CHOOSE p \in paths : TRUE, LAMBDA p :
       Bind(TreesOver(paths \ {p}), LAMBDA rest :
         (IF p \in OptionalPaths THEN rest ELSE {})
           \cup {Put(fs, p, text) : fs \in rest, text \in CompactChoices[p]}))

CompactTrees == TreesOver(DOMAIN CompactChoices)

ListingOrders ==
  {<<<<"_", "c", "o", "m", "p", "a", "c", "t", ".", "m", "d">>, <<"_", "m", "a", "n", "i", "f",
      "e", "s", "t", ".", "j", "s", "o", "n">>, <<"a", "l", "p", "h", "a">>, <<"b", "e", "t",
          "a">>, <<"c", "o", "r", "e">>, <<"g", "o", "t", "c", "h", "a", "s", ".", "m", "d">>,
     <<"i", "n", "d", "e", "x", ".", "m", "d">>, <<"n", "o", "t", "e", "s", ".", "t", "x", "t">>,
         <<"s", "e", "t", "u", "p", ".", "m", "d">>>>,
   <<<<"s", "e", "t", "u", "p", ".", "m", "d">>, <<"n", "o", "t", "e", "s", ".", "t", "x", "t">>,
       <<"i", "n", "d", "e", "x", ".", "m", "d">>, <<"g", "o", "t", "c", "h", "a", "s", ".", "m",
           "d">>, <<"c", "o", "r", "e">>, <<"b", "e", "t", "a">>, <<"a", "l", "p", "h", "a">>,
     <<"_", "m", "a", "n", "i", "f", "e", "s", "t", ".", "j", "s", "o", "n">>, <<"_", "c", "o",
         "m", "p", "a", "c", "t", ".", "m", "d">>>>,
   <<<<"i", "n", "d", "e", "x", ".", "m", "d">>, <<"s", "e", "t", "u", "p", ".", "m", "d">>, <<"b",
       "e", "t", "a">>, <<"c", "o", "r", "e">>, <<"_", "c", "o", "m", "p", "a", "c", "t", ".", "m",
           "d">>, <<"g", "o", "t", "c", "h", "a", "s", ".", "m", "d">>,
     <<"a", "l", "p", "h", "a">>, <<"n", "o", "t", "e", "s", ".", "t", "x", "t">>, <<"_", "m", "a",
         "n", "i", "f", "e", "s", "t", ".", "j", "s", "o", "n">>>>}

InitCompact ==
  /\ CacheInit
  /\ input \in CompactTrees
  /\ output = NoOutput

GenerateCompact(order) ==
  /\ output' = [op |-> "generateCompact", arg |-> order,
                result |-> generateCompactText(Alpha, input, <<Alpha>>, order)]
  /\ UNCHANGED <<cacheVars, input>>

\* the end of ensure and of refreshPrimer: the compact index of the bundle is
\* generated and, when it is not null, written
CompactAfterFetch(op, order) ==
  /\ \E content \in {generateCompactText(Alpha, input, <<Alpha>>, order)} :
       /\ input' = writeCompactFile(input, <<Alpha>>, content)
       /\ output' = [op |-> op, arg |-> order, result |-> content]
  /\ UNCHANGED cacheVars

GenerateAllCompact(order) ==
  /\ \E all \in {generateAllCompact(input, order)} :
       /\ input' = all.fs
       /\ output' = [op |-> "generateAllCompact", arg |-> order,
                     result |-> [tag |-> all.tag, val |-> all.val]]
  /\ UNCHANGED cacheVars

NextCompact ==
  \/ \E order \in ListingOrders : GenerateCompact(order)
  \/ \E order \in ListingOrders : \E op \in {"ensure", "refreshPrimer"} :
       CompactAfterFetch(op, order)
  \/ \E order \in ListingOrders : GenerateAllCompact(order)

SpecCompact == InitCompact /\ [][NextCompact]_vars

\* ------------------------------------------------- the compact index in use
\* C26: after a successful ensure(n) that wrote a file, a bundle with an
\* index.md has a _compact.md, which is the compact index of the files of n
\* that are now on disk.
C26_CompactFollowsEnsure ==
  (/\ last.op = "ensure" /\ last.result = "ok"
   /\ \E f \in Files : <<last.arg, f>> \in last.written
   /\ disk[last.arg]["index.md"] # 0) =>
    /\ compact[last.arg] # NoCompact
    /\ compact[last.arg] = generateCompact([disk |-> disk], last.arg)

\* ensure wrote setup.md next to an index.md that was there before, and the
\* compact index has the row of setup.md
C26_Witness ==
  /\ last.op = "ensure" /\ last.result = "ok"
  /\ last.written = {<<last.arg, "setup.md">>}
  /\ disk[last.arg]["index.md"] # 0
  /\ compact[last.arg].rows = {<<"setup.md", disk[last.arg]["setup.md"]>>}

\* the .md files of bundle alpha other than its index.md and _compact.md, as
\* paths below the bundle directory
SubFiles(fs) ==
  {join(Tail(p), <<"/">>) : p \in {q \in DOMAIN fs :
     /\ q[1] = Alpha /\ Len(q) > 1
     /\ endsWith(q[Len(q)], MdExt)
     /\ q \notin {<<Alpha, IndexMd>>, <<Alpha, CompactMd>>}}}

\* C27: generateCompact gives null exactly when the bundle directory has no
\* index.md, and for a bundle without index.md neither the end of ensure or of
\* refreshPrimer nor generateAllCompact writes or changes a _compact.md.
C27_NullIffNoIndex ==
  [][/\ output'.op # "generateAllCompact" =>
          (output'.result = Null <=> <<Alpha, IndexMd>> \notin DOMAIN input)
     /\ \A b \in {Alpha, Beta} :
          <<b, IndexMd>> \notin DOMAIN input =>
            /\ (<<b, CompactMd>> \in DOMAIN input') = (<<b, CompactMd>> \in DOMAIN input)
            /\ <<b, CompactMd>> \in DOMAIN input =>
                 input'[<<b, CompactMd>>] = input[<<b, CompactMd>>]
            /\ output'.op = "generateAllCompact" => b \notin Range(output'.result.val)]_vars

\* generateAllCompact wrote the compact index of alpha and passed over beta,
\* which has a file but no index.md
C27_Witness ==
  /\ output.op = "generateAllCompact"
  /\ output.result.val = <<Alpha>>
  /\ <<Alpha, CompactMd>> \in DOMAIN input
  /\ <<Beta, <<"s", "e", "t", "u", "p", ".", "m", "d">>>> \in DOMAIN input
  /\ <<Beta, CompactMd>> \notin DOMAIN input

\* the place of the first occurrence of sub in str, 0 when there is none
indexOf(str, sub) ==
  IF includes(str, sub)
    THEN CHOOSE i \in 1..Len(str) :
           /\ SubSeq(str, i, i + Len(sub) - 1) = sub
           /\ \A j \in 1..(i - 1) : SubSeq(str, j, j + Len(sub) - 1) # sub
    ELSE 0

\* the end of the row of a file
RowEnd(file) == <<" ", "|", " ", "~", "/", ".", "p", "r", "i", "m", "e", "r", "/", "a", "l", "p",
    "h", "a", "/">> \o file \o <<" ", "|", "\n">>

\* C28: two generations from the same files give the same text, whatever the
\* order in which the directories are listed, and the rows are in the order of
\* their file paths.
C28_IndependentOfListingOrder ==
  [][(output'.op = "generateCompact" /\ input' = input) =>
       /\ output.op = "generateCompact" => output'.result = output.result
       /\ output'.result.tag = "ok" =>
            \A f, g \in SubFiles(input) :
              lessThan(f, g) =>
                /\ indexOf(output'.result.val, RowEnd(f)) > 0
                /\ indexOf(output'.result.val, RowEnd(f))
                     < indexOf(output'.result.val, RowEnd(g))]_vars

\* the listing gave setup.md before core and gotchas.md after index.md, and the
\* text has the three rows
C28_Witness ==
  /\ output.op = "generateCompact" /\ output.result.tag = "ok"
  /\ output.arg[1] = <<"s", "e", "t", "u", "p", ".", "m", "d">>
  /\ SubFiles(input) = {<<"s", "e", "t", "u", "p", ".", "m", "d">>, <<"c", "o", "r", "e", "/", "i",
      "n", "d", "e", "x", ".", "m", "d">>, <<"c", "o", "r", "e", "/", "g", "o", "t", "c", "h", "a",
          "s", ".", "m", "d">>}
  /\ indexOf(output.result.val, RowEnd(<<"c", "o", "r", "e", "/", "g", "o", "t", "c", "h", "a",
      "s", ".", "m", "d">>))
       < indexOf(output.result.val, RowEnd(<<"c", "o", "r", "e", "/", "i", "n", "d", "e", "x", ".",
           "m", "d">>))

\* what the rows are to show, file by file and text by text
ExpectedTopic(file) ==
  CASE file = <<"s", "e", "t", "u", "p", ".", "m", "d">> -> <<"s", "e", "t", "u", "p">>
    [] file = <<"c", "o", "r", "e", "/", "i", "n", "d", "e", "x", ".", "m", "d">> -> <<"c", "o",
        "r", "e">>
    [] file = <<"c", "o", "r", "e", "/", "g", "o", "t", "c", "h", "a", "s", ".", "m",
        "d">> -> <<"c", "o", "r", "e", "/", "g", "o", "t", "c", "h", "a", "s">>

ExpectedSections(content) ==
  CASE content = <<"#", " ", "S", "e", "t", "u", "p", "\n", "\n", "#", "#", " ", "I", "n", "s",
      "t", "a", "l", "l", "\n">> -> <<"I", "n", "s", "t", "a", "l", "l">>
    [] content = <<"#", "#", " ", "I", "n", "s", "t", "a", "l", "l", "\n", "t", "e", "x", "t",
        "\n", "#", "#", " ", " ", "C", "o", "n", "f", "i", "g", "u", "r", "e", " ",
            "\n">> -> <<"I", "n", "s", "t", "a", "l", "l", ",", " ", "C", "o", "n", "f", "i", "g",
                "u", "r", "e">>
    [] content = <<"J", "u", "s", "t", " ", "s", "o", "m", "e", " ", "n", "o", "t", "e", "s", ".",
        "\n">> -> <<"u2014">>
    [] content = <<"#", "#", "#", " ", "I", "n", "s", "t", "a", "l", "l", "\n", "#", "#", "I", "n",
        "s", "t", "a", "l", "l", "\n", " ", "#", "#", " ", "I", "n", "s", "t", "a", "l",
            "l">> -> <<"u2014">>

ExpectedRow(fs, file) ==
  <<"|", " ">> \o ExpectedTopic(file) \o <<" ", "|", " ">>
    \o ExpectedSections(fs[<<Alpha>> \o split(file, "/")])
    \o <<" ", "|", " ", "~", "/", ".", "p", "r", "i", "m", "e", "r", "/", "a", "l", "p", "h", "a",
        "/">> \o file \o <<" ", "|">>

\* C29: the text has the sub-topic table exactly when the bundle has a .md file
\* other than its index.md and _compact.md; the table has one row for each such
\* file, nested ones included, with the topic (the path without .md and without a
\* trailing /index) and the level-2 headings joined by ", ", or the em dash.
C29_OneRowPerSubFile ==
  (output.op = "generateCompact" /\ output.result.tag = "ok") =>
    /\ includes(output.result.val, <<"\n", "#", "#", " ", "S", "u", "b", "t", "o", "p", "i", "c",
        "s", "\n">>) <=> SubFiles(input) # {}
    /\ includes(output.result.val, <<"\n", "|", " ", "T", "o", "p", "i", "c", " ", "|", " ", "S",
        "e", "c", "t", "i", "o", "n", "s", " ", "|", " ", "F", "i", "l", "e", " ", "|", "\n", "|",
            "-", "-", "-", "|", "-", "-", "-", "|", "-", "-", "-", "|", "\n">>)
         <=> SubFiles(input) # {}
    /\ Len(SelectSeq(split(output.result.val, "\n"), LAMBDA line : startsWith(line, <<"|", " ">>)))
         = IF SubFiles(input) = {} THEN 0 ELSE Cardinality(SubFiles(input)) + 1
    /\ \A file \in SubFiles(input) :
         ExpectedRow(input, file) \in Range(split(output.result.val, "\n"))

\* the example: index.md "# Alpha / Does A things.", setup.md with "## Install",
\* and a nested file without heading
C29_Witness ==
  /\ output.op = "generateCompact" /\ output.result.tag = "ok"
  /\ input[<<Alpha, IndexMd>>] = <<"#", " ", "A", "l", "p", "h", "a", "\n", "\n", "D", "o", "e",
      "s", " ", "A", " ", "t", "h", "i", "n", "g", "s", ".", "\n">>
  /\ <<Alpha, <<"s", "e", "t", "u", "p", ".", "m", "d">>>> \in DOMAIN input
  /\ input[<<Alpha, <<"s", "e", "t", "u", "p", ".", "m", "d">>>>] = <<"#", " ", "S", "e", "t", "u",
      "p", "\n", "\n", "#", "#", " ", "I", "n", "s", "t", "a", "l", "l", "\n">>
  /\ includes(output.result.val, <<"\n", "|", " ", "s", "e", "t", "u", "p", " ", "|", " ", "I",
      "n", "s", "t", "a", "l", "l", " ", "|", " ", "~", "/", ".", "p", "r", "i", "m", "e", "r",
          "/", "a", "l", "p", "h", "a", "/", "s", "e", "t", "u", "p", ".", "m", "d", " ", "|",
              "\n">>)
  /\ includes(output.result.val, <<"\n", "|", " ", "c", "o", "r", "e", "/", "g", "o", "t", "c",
      "h", "a", "s", " ", "|", " ">> \o <<"u2014">>
                                   \o <<" ", "|", " ", "~", "/", ".", "p", "r", "i", "m", "e", "r",
                                       "/", "a", "l", "p", "h", "a", "/", "c", "o", "r", "e", "/",
                                           "g", "o", "t", "c", "h", "a", "s", ".", "m", "d", " ",
                                               "|", "\n">>)

\* C30 as stated: every compact index contains the text that the test of the
\* generator looks for, "Prefer retrieval-led reasoning over pre-training-led
\* reasoning".
C30_DirectiveExpectedByTest ==
  (output.op = "generateCompact" /\ output.result.tag = "ok") =>
    includes(output.result.val,
             <<"P", "r", "e", "f", "e", "r", " ", "r", "e", "t", "r", "i", "e", "v", "a", "l", "-",
                 "l", "e", "d", " ", "r", "e", "a", "s", "o", "n", "i", "n", "g", " ", "o", "v",
                     "e", "r", " ", "p", "r", "e", "-", "t", "r", "a", "i", "n", "i", "n", "g",
                         "-", "l", "e", "d", " ", "r", "e", "a", "s", "o", "n", "i", "n", "g">>)

\* ============================================================ levenshtein
MaxLen == 3

\* the characters of the strings compared (UTF-16 code units, as charAt reads them)
Letters == {"a", "b"}

RECURSIVE StringsUpTo(_)
StringsUpTo(n) ==
  IF n = 0 THEN {<<>>}
  ELSE StringsUpTo(n - 1)
         \cup {Append(s, c) : s \in {t \in StringsUpTo(n - 1) : Len(t) = n - 1}, c \in Letters}

InitLevenshtein ==
  /\ CacheInit
  /\ input \in StringsUpTo(MaxLen) \X StringsUpTo(MaxLen)
  /\ output = NoOutput

Levenshtein ==
  /\ output' = [op |-> "levenshtein", arg |-> input,
                result |-> [tag |-> "ok", val |-> levenshtein(input[1], input[2])]]
  /\ UNCHANGED <<cacheVars, input>>

\* the arguments the other way round
LevenshteinSwapped ==
  /\ output' = [op |-> "levenshtein", arg |-> <<input[2], input[1]>>,
                result |-> [tag |-> "ok", val |-> levenshtein(input[2], input[1])]]
  /\ UNCHANGED <<cacheVars, input>>

NextLevenshtein ==
  \/ Levenshtein
  \/ LevenshteinSwapped

SpecLevenshtein == InitLevenshtein /\ [][NextLevenshtein]_vars

\* ---- the edit distance, from its definition: single edits and the least
\* ---- number of them that lead from one string to the other
Deletions(s) == {SubSeq(s, 1, i - 1) \o SubSeq(s, i + 1, Len(s)) : i \in 1..Len(s)}

Insertions(s) ==
  {SubSeq(s, 1, i) \o <<c>> \o SubSeq(s, i + 1, Len(s)) : i \in 0..Len(s), c \in Letters}

Substitutions(s) == {[s EXCEPT ![i] = c] : i \in 1..Len(s), c \in Letters}

SingleEdits(s) == Deletions(s) \cup Insertions(s) \cup Substitutions(s)

\* within holds the strings at most k edits away from the start
RECURSIVE EditsUntil(_, _, _)
EditsUntil(within, target, k) ==
  IF target \in within THEN k
  ELSE EditsUntil(within \cup UNION {SingleEdits(s) : s \in within}, target, k + 1)

EditDistance(a, b) == EditsUntil({a}, b, 0)

\* C31: levenshtein(a, b) is the least number of single-character insertions,
\* deletions and substitutions that turn a into b; it is a natural number for
\* every pair of strings (no failure), 0 exactly when a = b, the same with the
\* arguments exchanged, and the length of the other string when one is empty.
C31_LevenshteinIsEditDistance ==
  output.op = "levenshtein" =>
    /\ output.result.tag = "ok"
    /\ output.result.val \in Nat
    /\ output.result.val = EditDistance(output.arg[1], output.arg[2])
    /\ output.result.val = 0 <=> output.arg[1] = output.arg[2]
    /\ output.result.val = levenshtein(output.arg[2], output.arg[1])
    /\ output.arg[1] = <<>> => output.result.val = Len(output.arg[2])
    /\ output.arg[2] = <<>> => output.result.val = Len(output.arg[1])

\* "abb" against "ba": one deletion and one substitution, neither enough alone
C31_Witness ==
  /\ output.op = "levenshtein"
  /\ output.arg = <<<<"a", "b", "b">>, <<"b", "a">>>>
  /\ output.result.val = 2

\* ========================================================== primerCommand
\* ---- `primer <path>` for a path that is neither empty nor "help"
CompactName == SubSeq(CompactMd, 1, Len(CompactMd) - Len(MdExt))

CommandPaths ==
  {<<Chars["a"], Chars["index.md"]>>, <<Chars["a"], CompactMd>>,
   <<Chars["a"], Chars["setup.md"]>>, <<Chars["b"], Chars["index.md"]>>}

CommandTrees == UNION {[S -> 1..MaxVersion] : S \in SUBSET CommandPaths}

CommandLines == {<<Chars["a"]>>, <<Chars["a"], Chars["setup"]>>, <<Chars["b"]>>}

\* faulty variant of isTTY: every output is taken for a terminal
alwaysTTY(in) == TRUE

\* process.stdout.isTTY === true
isTTY(in) == in.tty

\* the effect handed to withResolveErrors in the three branches
resolveEffect(in, fs) ==
  IF isTTY(in) THEN resolve(fs, in.path)
  ELSE IF Len(in.path) = 1
    THEN Bind(resolve(fs, <<in.path[1], CompactName>>),
              LAMBDA c : IF c.tag = "ContentNotFoundError" THEN resolve(fs, in.path) ELSE c)
  ELSE resolvePath(fs, in.path)

\* what running it gives: its result on the tree, or the failure of a
\* filesystem call
ResolveOutcomes(in, fs) ==
  {resolveEffect(in, fs), [tag |-> "PlatformError", val |-> in.path]}

\* the trees ensure(primer) can leave: files of the bundle added, no file
\* changed but the compact index; or a failure that leaves the tree
EnsureOutcomes(primer, fs) ==
  {[result |-> "ok", fs |-> t] :
     t \in {u \in CommandTrees :
              /\ \A p \in DOMAIN fs :
                   p \in DOMAIN u /\ (p[Len(p)] # CompactMd \/ p[1] # primer => u[p] = fs[p])
              /\ \A p \in DOMAIN u \ DOMAIN fs : p[1] = primer}}
    \cup {[result |-> e, fs |-> fs] : e \in {"FetchError", "ManifestError", "PlatformError"}}

\* the trees refreshInBackground(primer) can leave: files of the bundle added
\* or rewritten
RefreshOutcomes(primer, fs) ==
  {u \in CommandTrees :
     /\ \A p \in DOMAIN fs : p \in DOMAIN u /\ (p[1] # primer => u[p] = fs[p])
     /\ \A p \in DOMAIN u \ DOMAIN fs : p[1] = primer}

Event(ev, tag) == [ev |-> ev, tag |-> tag]

CommandIdle(in) ==
  [pc |-> "start", fs |-> in.fs, content |-> Null, printed |-> Null, events |-> <<>>,
   daemon |-> "none"]

InitCommand ==
  /\ CacheInit
  /\ input \in [tty : BOOLEAN, fetch : BOOLEAN, path : CommandLines, fs : CommandTrees]
  /\ output = CommandIdle(input)

\* faulty variant of afterNotFound: the failure is reported at once
reportAtOnce(o) ==
  [o EXCEPT !.pc = "done", !.events = Append(@, Event("stderr", "Primer not found: path"))]

\* the first catchTag("ContentNotFoundError"): ensure comes next
afterNotFound(o) == [o EXCEPT !.pc = "ensure"]

\* withResolveErrors(resolveEffect): the effect runs
FirstResolve ==
  /\ output.pc = "start"
  /\ \E r \in ResolveOutcomes(input, output.fs) :
       output' =
         Bind([output EXCEPT !.events = Append(@, Event("resolve", r.tag))],
              LAMBDA o : CASE r.tag = "ok" -> [o EXCEPT !.pc = "resolved", !.content = r]
                           [] r.tag = "ContentNotFoundError" -> afterNotFound(o)
                           [] OTHER -> [o EXCEPT !.pc = "done"])
  /\ UNCHANGED <<cacheVars, input>>

\* withSpinner(`Fetching ${primer}...`, cache.ensure(primer)), and the handlers
\* of its failures: FetchError and ManifestError are reported, and every
\* failure ends in catchAll(() => Effect.succeed(null))
EnsureMissing ==
  /\ output.pc = "ensure"
  /\ \E e \in EnsureOutcomes(input.path[1], output.fs) :
       output' =
         Bind([output EXCEPT !.fs = e.fs, !.events = Append(@, Event("ensure", e.result))],
              LAMBDA o :
                CASE e.result = "ok" -> [o EXCEPT !.pc = "retry"]
                  [] e.result = "FetchError" ->
                       [o EXCEPT !.pc = "done",
                                 !.events = Append(@, Event("stderr", "Primer not found: primer"))]
                  [] e.result = "ManifestError" ->
                       [o EXCEPT !.pc = "done",
                                 !.events = Append(@, Event("stderr", "Failed to fetch primer"))]
                  [] OTHER -> [o EXCEPT !.pc = "done"])
  /\ UNCHANGED <<cacheVars, input>>

\* Effect.andThen(resolveEffect), and the second catchTag("ContentNotFoundError")
RetryResolve ==
  /\ output.pc = "retry"
  /\ \E r \in ResolveOutcomes(input, output.fs) :
       output' =
         Bind([output EXCEPT !.events = Append(@, Event("resolve", r.tag))],
              LAMBDA o :
                CASE r.tag = "ok" -> [o EXCEPT !.pc = "resolved", !.content = r]
                  [] r.tag = "ContentNotFoundError" ->
                       [o EXCEPT !.pc = "done",
                                 !.events = Append(@, Event("stderr", "Primer not found: path"))]
                  [] OTHER -> [o EXCEPT !.pc = "done"])
  /\ UNCHANGED <<cacheVars, input>>

\* cache.refreshInBackground(primer).pipe(Effect.forkDaemon)
ForkRefresh ==
  /\ output.pc = "resolved"
  /\ isTTY(input)
  /\ output' = [output EXCEPT !.pc = "print", !.daemon = "forked",
                              !.events = Append(@, Event("fork", "refreshInBackground"))]
  /\ UNCHANGED <<cacheVars, input>>

\* Console.log(content), Console.log(filePath)
PrintContent ==
  /\ \/ output.pc = "print"
     \/ output.pc = "resolved" /\ ~isTTY(input)
  /\ output' = [output EXCEPT !.pc = IF ~isTTY(input) /\ input.fetch THEN "fetch" ELSE "done",
                              !.printed = output.content,
                              !.events = Append(@, Event("stdout", "content"))]
  /\ UNCHANGED <<cacheVars, input>>

\* if (fetch) yield* withSpinner(..., cache.refreshInBackground(primer)): the call
FetchStart ==
  /\ output.pc = "fetch"
  /\ output' = [output EXCEPT !.pc = "fetching",
                              !.events = Append(@, Event("refresh", "start"))]
  /\ UNCHANGED <<cacheVars, input>>

\* its return, which the command awaits
FetchEnd ==
  /\ output.pc = "fetching"
  /\ \E t \in RefreshOutcomes(input.path[1], output.fs) :
       output' = [output EXCEPT !.pc = "done", !.fs = t,
                                !.events = Append(@, Event("refresh", "end"))]
  /\ UNCHANGED <<cacheVars, input>>

\* the detached fiber runs, at any moment after the fork
DaemonRuns ==
  /\ output.daemon = "forked"
  /\ \E t \in RefreshOutcomes(input.path[1], output.fs) :
       output' = [output EXCEPT !.daemon = "ended", !.fs = t,
                                !.events = Append(@, Event("daemon", "end"))]
  /\ UNCHANGED <<cacheVars, input>>

NextCommand ==
  \/ FirstResolve
  \/ EnsureMissing
  \/ RetryResolve
  \/ ForkRefresh
  \/ PrintContent
  \/ FetchStart
  \/ FetchEnd
  \/ DaemonRuns

SpecCommand == InitCommand /\ [][NextCommand]_vars

\* ---- what the events of a run say
Count(events, ev) == Cardinality({i \in DOMAIN events : events[i].ev = ev})
Has(events, e) == \E i \in DOMAIN events : events[i] = e
NotFoundReported(events) ==
  \E i \in DOMAIN events :
    events[i].ev = "stderr" /\
      events[i].tag \in {"Primer not found: path", "Primer not found: primer"}

\* C32: a resolution that fails with ContentNotFoundError is followed by one
\* call of ensure(bundle) and, when ensure succeeds, by one retry of the same
\* resolution; "Primer not found" is reported only when the retry fails with
\* ContentNotFoundError or ensure fails; without a first ContentNotFoundError
\* ensure is not called.
C32_EnsureThenRetryOnce ==
  /\ Count(output.events, "ensure") <= 1
  /\ Count(output.events, "resolve") <= 2
  /\ \A i \in DOMAIN output.events :
       /\ output.events[i].ev = "ensure" =>
            i = 2 /\ output.events[1] = Event("resolve", "ContentNotFoundError")
       /\ output.events[i].ev = "resolve" /\ i > 1 =>
            i = 3 /\ output.events[2] = Event("ensure", "ok")
  /\ (output.pc \notin {"start", "ensure"}
        /\ output.events[1] = Event("resolve", "ContentNotFoundError")) =>
       Count(output.events, "ensure") = 1
  /\ (output.pc \notin {"start", "ensure", "retry"}
        /\ Has(output.events, Event("ensure", "ok"))) =>
       Count(output.events, "resolve") = 2
  /\ NotFoundReported(output.events) =>
       \/ /\ Len(output.events) >= 3
          /\ output.events[3] = Event("resolve", "ContentNotFoundError")
       \/ \E i \in DOMAIN output.events :
            output.events[i].ev = "ensure" /\ output.events[i].tag # "ok"
  /\ (output.events # <<>> /\ output.events[1] = Event("resolve", "ok")) =>
       Count(output.events, "ensure") = 0

\* `primer a setup` on a tree without bundle a: not found, ensure, found
C32_Witness ==
  /\ output.pc = "done"
  /\ input.path = <<Chars["a"], Chars["setup"]>>
  /\ input.fs = <<>>
  /\ Len(output.events) >= 3
  /\ output.events[1] = Event("resolve", "ContentNotFoundError")
  /\ output.events[2] = Event("ensure", "ok")
  /\ output.events[3] = Event("resolve", "ok")
  /\ output.printed.tag = "ok"
  /\ ~NotFoundReported(output.events)

IndexOf(events, e) == CHOOSE i \in DOMAIN events : events[i] = e

C33_HeaderIffRefreshAndStored ==
  [][last'.op \in BundleOperations =>
       /\ \A rq \in last'.freqs :
            /\ rq.inm = IF last'.op = "ensure" THEN NoEtag ELSE StoredEtag(rq.b, rq.f)
            /\ (rq.inm = NoEtag /\ rq.status = 200 /\ last'.result \in {"ok", "void"}
                  /\ last'.caught = "") =>
                 /\ <<rq.b, rq.f>> \in last'.written
                 /\ disk'[rq.b][rq.f] = originFile[rq.b][rq.f]
       /\ last'.op \in {"refreshInBackground", "refreshAll"} =>
            \A rq \in last'.freqs : \A f \in Files :
              Listed(manifestFile', rq.b, f) => <<rq.b, f>> \in Requested(last')]_vars

\* a refresh of a bundle with one file whose ETag is stored and one whose ETag
\* the origin never sent: the first is asked for with the header, the second
\* without, and the second is written again although the origin has not changed
C33_Witness ==
  /\ last.op = "refreshInBackground" /\ last.caught = ""
  /\ \E rq \in last.freqs : rq.inm # NoEtag /\ rq.inm = StoredEtag(rq.b, rq.f)
  /\ \E rq \in last.freqs :
       /\ rq.inm = NoEtag /\ rq.status = 200
       /\ <<rq.b, rq.f>> \in last.written
       /\ StoredEtag(rq.b, rq.f) = NoEtag
       /\ originFile[rq.b][rq.f] = 1

\* ------------------------------------------- a failed request in a refresh
\* C35: in refreshInBackground and refreshAll a file request that fails
\* (no answer, or a status other than 200 and 304) is not the operation's
\* failure; the file keeps its content and its stored ETag; the other files
\* of the bundle that came with content are written; refreshAll, unless a
\* filesystem call fails, returns its list.
C35_FailedFileIsSkipped ==
  [][last'.op \in {"refreshInBackground", "refreshAll"} =>
       \A rq \in last'.freqs :
         rq.tag = "FetchError" =>
           /\ rq.status \notin {200, 304}
           /\ last'.result \in {"ok", "void", "PlatformError"}
           /\ last'.caught \in {"", "PlatformError"}
           /\ disk'[rq.b][rq.f] = disk[rq.b][rq.f]
           /\ <<rq.b, rq.f>> \notin last'.written
           /\ StoredEtag(rq.b, rq.f)' = StoredEtag(rq.b, rq.f)
           /\ (last'.result \in {"ok", "void"} /\ last'.caught = "") =>
                \A other \in last'.freqs :
                  (other.b = rq.b /\ other.tag = "content") =>
                    /\ <<other.b, other.f>> \in last'.written
                    /\ disk'[other.b][other.f] = originFile[other.b][other.f]]_vars

\* refreshAll: index.md of a bundle fails, setup.md of the same bundle is
\* written, the failed file keeps its stored ETag, the bundle is in the list
C35_Witness ==
  /\ last.op = "refreshAll" /\ last.result = "ok"
  /\ \E rq \in last.freqs :
       /\ rq.tag = "FetchError" /\ rq.f = "index.md"
       /\ StoredEtag(rq.b, rq.f) # NoEtag
       /\ disk[rq.b][rq.f] # originFile[rq.b][rq.f]
       /\ <<rq.b, "setup.md">> \in last.written
       /\ \E i \in DOMAIN last.list : last.list[i] = rq.b

\* ------------------------------------------- a failed request in ensure
\* C36 as stated: an ensure in which a file request fails ends with
\* FetchError, writes no file and no compact index, and leaves the Meta as it
\* was.
C36_FailedEnsureLeavesMeta ==
  [][(last'.op = "ensure" /\ \E rq \in last'.freqs : rq.tag = "FetchError") =>
       /\ last'.result = "FetchError"
       /\ last'.written = {}
       /\ disk' = disk
       /\ compact' = compact
       /\ metaFile' = metaFile]_vars

\* C36, amended: such an ensure ends with FetchError, writes no file and no
\* compact index, and leaves the bundle entries of the Meta as they were; the
\* meta file as a whole is left as it was unless the registry lookup of this
\* ensure fetched the registry.
C36_FailedEnsureWritesNoFile ==
  [][(last'.op = "ensure" /\ \E rq \in last'.freqs : rq.tag = "FetchError") =>
       /\ last'.result = "FetchError"
       /\ last'.written = {}
       /\ disk' = disk
       /\ compact' = compact
       /\ MetaNow'.primers = MetaNow.primers
       /\ (\A i \in DOMAIN last'.mreqs : last'.mreqs[i].status # 200) =>
            metaFile' = metaFile]_vars

\* ensure(a) with two files missing: index.md arrives, setup.md fails, and
\* neither is on disk afterwards
C36_Witness ==
  /\ last.op = "ensure" /\ last.arg = "a" /\ last.result = "FetchError"
  /\ \E rq \in last.freqs : rq.f = "index.md" /\ rq.tag = "content"
  /\ \E rq \in last.freqs : rq.f = "setup.md" /\ rq.tag = "FetchError"
  /\ disk["a"]["index.md"] = 0 /\ disk["a"]["setup.md"] = 0
  /\ "a" \in dirs
  /\ "a" \notin Installed

\* ------------------------------------------------------- cache coherence
\* ---- sequential use with an origin that may also go back to an earlier
\* ---- content, which it serves under the ETag of that content
\* the cache directory after ensure("a") on the empty directory, the origin
\* having published a new index.md of a since
InitCoherence ==
  /\ originManifest = "R2"
  /\ originFile = [b \in Bundles |->
                     [f \in Files |-> IF b = "a" /\ f = "index.md" THEN 2 ELSE 1]]
  /\ manifestFile = "R2"
  /\ metaFile = [state |-> "ok",
                 data |-> [manifestFetchedAt |-> 0, manifestEtag |-> "R2",
                           primers |-> [n \in {"a"} |->
                                          [fetchedAt |-> 0, etags |-> [f \in Files |-> 1]]]]]
  /\ disk = [b \in Bundles |-> [f \in Files |-> IF b = "a" THEN 1 ELSE 0]]
  /\ dirs = {"a"}
  /\ compact = [b \in Bundles |->
                  IF b = "a" THEN [idx |-> 1, rows |-> {<<"setup.md", 1>>}] ELSE NoCompact]
  /\ now = 0
  /\ last = NoOp
  /\ steps = 0
  /\ faults = 0
  /\ input = <<>>
  /\ output = NoOutput

\* the origin serves an earlier content again
OriginRestoreFile(b, f) ==
  /\ Env
  /\ originFile[b][f] > 1
  /\ originFile' = [originFile EXCEPT ![b][f] = @ - 1]
  /\ UNCHANGED <<originManifest, manifestFile, metaFile, disk, dirs, compact, now>>

NextCoherence ==
  \/ \E n \in Bundles : Ensure(n)
  \/ \E n \in Bundles : RefreshInBackground(n)
  \/ RefreshAll
  \/ \E p \in OriginPaths : OriginPublishFile(p[1], p[2])
  \/ \E p \in OriginPaths : OriginRestoreFile(p[1], p[2])

SpecCoherence == InitCoherence /\ [][NextCoherence]_vars

\* C37 as stated: whenever the ETag stored in the Meta for a file is the
\* origin's current ETag of that file, the file on disk has the origin's
\* current content.
C37_StoredEtagMeansCurrentContent ==
  \A b \in Bundles, f \in Files :
    (StoredEtag(b, f) # NoEtag /\ StoredEtag(b, f) = originFile[b][f]) =>
      disk[b][f] = originFile[b][f]

\* the stale content is pinned: a refresh asked with the stored ETag, was
\* answered 304, and the file on disk is not what the origin serves
PinnedByNotModified ==
  /\ last.op \in {"refreshInBackground", "refreshAll"}
  /\ \E rq \in last.freqs :
       /\ rq.tag = "notModified"
       /\ disk[rq.b][rq.f] # originFile[rq.b][rq.f]

\* ======================================================= operations that overlap
\* ---- two processes on one cache directory; each runs one operation, one
\* ---- filesystem or network call after the other, and the origin may publish
\* ---- in between. No call fails here.
Processes == {1, 2}

OverlapOperations ==
  {[op |-> "ensure", arg |-> "a"], [op |-> "ensure", arg |-> "b"],
   [op |-> "refreshInBackground", arg |-> "a"], [op |-> "refreshAll", arg |-> ""],
   [op |-> "refresh", arg |-> ""]}

\* what a process holds between its calls
ProcessIdle ==
  [pc |-> "start", n |-> "", reg |-> "absent", queue |-> <<>>, files |-> <<>>,
   meta |-> EmptyMeta, currentMeta |-> EmptyMeta, results |-> <<>>, i |-> 0,
   etags |-> EmptyFcn, anyUpdated |-> FALSE, body |-> "none", wrote |-> {},
   wroteRegistry |-> "none"]

\* the cache directory after get, or after ensure("a"), on the empty directory
InitOverlap ==
  /\ originManifest \in {"R1", "R2"}
  /\ originFile = [b \in Bundles |-> [f \in Files |-> 1]]
  /\ manifestFile = "R2"
  /\ \E installed \in BOOLEAN :
       /\ metaFile = [state |-> "ok",
                      data |-> [manifestFetchedAt |-> 0, manifestEtag |-> "R2",
                                primers |-> [n \in IF installed THEN {"a"} ELSE {} |->
                                               [fetchedAt |-> 0,
                                                etags |-> [f \in Files |-> 1]]]]]
       /\ disk = [b \in Bundles |-> [f \in Files |-> IF installed /\ b = "a" THEN 1 ELSE 0]]
       /\ dirs = IF installed THEN {"a"} ELSE {}
       /\ compact = [b \in Bundles |->
                       IF installed /\ b = "a" THEN [idx |-> 1, rows |-> {<<"setup.md", 1>>}]
                       ELSE NoCompact]
  /\ now = 0
  /\ last = NoOp
  /\ steps = 0
  /\ faults = 0
  /\ input \in [Processes -> OverlapOperations]
  /\ output = [p \in Processes |-> ProcessIdle]

\* refreshAll: the loop goes on to the next installed bundle the registry lists
RECURSIVE nextInstalled(_)
nextInstalled(s) ==
  IF s.queue = <<>> THEN [s EXCEPT !.pc = "done"]
  ELSE IF Head(s.queue) \notin DOMAIN ManifestPrimers(s.reg)
    THEN nextInstalled([s EXCEPT !.queue = Tail(@)])
  ELSE [s EXCEPT !.pc = "fetch", !.n = Head(s.queue), !.queue = Tail(@),
                 !.files = ManifestPrimers(s.reg)[Head(s.queue)]]

\* the operation up to its first request: manifest.get from the local copy,
\* readMeta, and for ensure makeDirectory and the search for missing files
begin(in, s) ==
  Bind([s EXCEPT !.reg = manifestFile, !.meta = MetaNow], LAMBDA t :
    CASE in.op = "refresh" -> [t EXCEPT !.pc = "fetchManifest"]
      [] in.op = "refreshAll" ->
           nextInstalled([t EXCEPT !.queue = installedPrimers(t.meta, t.reg)])
      [] in.arg \notin DOMAIN ManifestPrimers(t.reg) -> [t EXCEPT !.pc = "done"]
      [] in.op = "refreshInBackground" ->
           [t EXCEPT !.pc = "fetch", !.n = in.arg, !.files = ManifestPrimers(t.reg)[in.arg]]
      [] OTHER ->
           Bind(missingFiles([disk |-> disk], in.arg, ManifestPrimers(t.reg)[in.arg]),
                LAMBDA missing :
             IF Len(missing) = 0 THEN [t EXCEPT !.pc = "done", !.n = in.arg]
             ELSE [t EXCEPT !.pc = "fetch", !.n = in.arg, !.files = missing]))

\* ensure: fs.makeDirectory(primerDir) once the registry lists the bundle
madeDirectory(in, s) ==
  IF in.op = "ensure" /\ in.arg \in DOMAIN ManifestPrimers(s.reg) THEN {in.arg} ELSE {}

Begin(p) ==
  /\ output[p].pc = "start"
  /\ \E s \in {begin(input[p], output[p])} :
       /\ output' = [output EXCEPT ![p] = s]
       /\ dirs' = dirs \cup madeDirectory(input[p], s)
  /\ UNCHANGED <<originManifest, originFile, manifestFile, metaFile, disk, compact, now,
                 last, steps, faults, input>>

\* refreshPrimer: fs.makeDirectory(primerDir); then Effect.all over the files,
\* every request answered
FetchFiles(p) ==
  /\ output[p].pc = "fetch"
  /\ \E s \in {output[p]} :
       output' =
         [output EXCEPT ![p] =
            [s EXCEPT !.pc = "write", !.i = 1, !.anyUpdated = FALSE,
                      !.etags = IF input[p].op = "ensure" THEN StoredEtags(s.meta, s.n)
                                ELSE InitialEtags(StoredEtags(s.meta, s.n)),
                      !.results =
                        [i \in 1..Len(s.files) |->
                           fetchFile(s.n, s.files[i],
                                     IF input[p].op = "ensure" THEN NoEtag
                                     ELSE EtagOf(StoredEtags(s.meta, s.n), s.files[i]),
                                     "ok")]]]
  /\ dirs' = dirs \cup (IF input[p].op = "ensure" THEN {} ELSE {output[p].n})
  /\ UNCHANGED <<originManifest, originFile, manifestFile, metaFile, disk, compact, now,
                 last, steps, faults, input>>

\* where the operation goes once the write loop is through
afterLoop(in, s) ==
  IF in.op = "ensure" THEN [s EXCEPT !.pc = "writeMeta"]
  ELSE IF s.anyUpdated THEN [s EXCEPT !.pc = "readMeta"]
  ELSE IF in.op = "refreshAll" THEN nextInstalled(s)
  ELSE [s EXCEPT !.pc = "done"]

\* a turn of the write loop that skips a file answered 304
SkipNotModified(p) ==
  /\ output[p].pc = "write"
  /\ output[p].i <= Len(output[p].results)
  /\ output[p].results[output[p].i].tag = "notModified"
  /\ output' = [output EXCEPT ![p] =
                  Bind([@ EXCEPT !.i = @ + 1], LAMBDA t :
                    IF t.i > Len(t.results) THEN afterLoop(input[p], t) ELSE t)]
  /\ UNCHANGED <<cacheVars, input>>

\* a turn of the write loop that writes a file
WriteFileOf(p) ==
  /\ output[p].pc = "write"
  /\ output[p].i <= Len(output[p].results)
  /\ \E res \in {output[p].results[output[p].i]} :
       /\ res.tag = "content"
       /\ disk' = [disk EXCEPT ![res.b][res.file] = res.content]
       /\ output' = [output EXCEPT ![p] =
                       Bind([@ EXCEPT !.i = @ + 1, !.anyUpdated = TRUE,
                                      !.etags = IF res.etag # NoEtag
                                                  THEN Put(@, res.file, res.etag) ELSE @],
                            LAMBDA t :
                         IF t.i > Len(t.results) THEN afterLoop(input[p], t) ELSE t)]
  /\ UNCHANGED <<originManifest, originFile, manifestFile, metaFile, dirs, compact, now,
                 last, steps, faults, input>>

\* refreshPrimer: const currentMeta = yield* readMeta(metaPath)
ReadCurrentMeta(p) ==
  /\ output[p].pc = "readMeta"
  /\ output' = [output EXCEPT ![p] = [@ EXCEPT !.pc = "writeMeta", !.currentMeta = MetaNow]]
  /\ UNCHANGED <<cacheVars, input>>

\* writeMeta(metaPath, updatedMeta): ensure spreads the Meta it read at its
\* start, refreshPrimer the one it has just read
WriteMetaOf(p) ==
  /\ output[p].pc = "writeMeta"
  /\ \E s \in {output[p]} :
       /\ metaFile' = [state |-> "ok",
                       data |-> WithPrimer(IF input[p].op = "ensure" THEN s.meta
                                           ELSE s.currentMeta, s.n, s.etags)]
       /\ output' = [output EXCEPT ![p] = [s EXCEPT !.pc = "compact",
                                                    !.wrote = @ \cup {s.n}]]
  /\ UNCHANGED <<originManifest, originFile, manifestFile, disk, dirs, compact, now,
                 last, steps, faults, input>>

\* generateCompact, and _compact.md when it is not null
WriteCompactOf(p) ==
  /\ output[p].pc = "compact"
  /\ \E comp \in {generateCompact([disk |-> disk], output[p].n)} :
       compact' = IF comp = NoCompact THEN compact
                  ELSE [compact EXCEPT ![output[p].n] = comp]
  /\ output' = [output EXCEPT ![p] = IF input[p].op = "refreshAll" THEN nextInstalled(@)
                                      ELSE [@ EXCEPT !.pc = "done"]]
  /\ UNCHANGED <<originManifest, originFile, manifestFile, metaFile, disk, dirs, now,
                 last, steps, faults, input>>

\* fetchManifest: the request with the ETag of the Meta read at the start
RequestManifest(p) ==
  /\ output[p].pc = "fetchManifest"
  /\ \E resp \in {ManifestResponse("ok", output[p].meta.manifestEtag)} :
       output' = [output EXCEPT ![p] =
                    IF resp.status = 304 THEN [@ EXCEPT !.pc = "done"]
                    ELSE [@ EXCEPT !.pc = "writeManifest", !.body = resp.body]]
  /\ UNCHANGED <<cacheVars, input>>

\* fs.writeFileString(manifestPath, text)
WriteManifest(p) ==
  /\ output[p].pc = "writeManifest"
  /\ manifestFile' = output[p].body
  /\ output' = [output EXCEPT ![p] = [@ EXCEPT !.pc = "writeManifestMeta"]]
  /\ UNCHANGED <<originManifest, originFile, metaFile, disk, dirs, compact, now, last,
                 steps, faults, input>>

\* writeMeta(metaPath, { ...meta, manifestFetchedAt, manifestEtag })
WriteManifestMeta(p) ==
  /\ output[p].pc = "writeManifestMeta"
  /\ metaFile' = [state |-> "ok",
                  data |-> [output[p].meta EXCEPT !.manifestFetchedAt = now,
                                                  !.manifestEtag = output[p].body]]
  /\ output' = [output EXCEPT ![p] = [@ EXCEPT !.pc = "done",
                                               !.wroteRegistry = output[p].body]]
  /\ UNCHANGED <<originManifest, originFile, manifestFile, disk, dirs, compact, now, last,
                 steps, faults, input>>

\* the origin publishes while an operation is under way
PublishDuring(b, f) ==
  /\ \E p \in Processes : output[p].pc \notin {"start", "done"}
  /\ OriginPublishFile(b, f)

NextOverlap ==
  \/ \E p \in Processes : Begin(p)
  \/ \E p \in Processes : FetchFiles(p)
  \/ \E p \in Processes : SkipNotModified(p)
  \/ \E p \in Processes : WriteFileOf(p)
  \/ \E p \in Processes : ReadCurrentMeta(p)
  \/ \E p \in Processes : WriteMetaOf(p)
  \/ \E p \in Processes : WriteCompactOf(p)
  \/ \E p \in Processes : RequestManifest(p)
  \/ \E p \in Processes : WriteManifest(p)
  \/ \E p \in Processes : WriteManifestMeta(p)
  \/ \E x \in OriginPaths : PublishDuring(x[1], x[2])

SpecOverlap == InitOverlap /\ [][NextOverlap]_vars

AllDone == \A p \in Processes : output[p].pc = "done"

\* C38 as stated: after two overlapping refreshes of a bundle, with the origin
\* publishing between their requests, the ETag the Meta holds for a file is
\* the ETag of the content on disk.
C38_OverlappingRefreshesCoherent ==
  (AllDone /\ \A p \in Processes : input[p].op \in {"refreshInBackground", "refreshAll"}) =>
    \A f \in Files :
      StoredEtag("a", f) # NoEtag => StoredEtag("a", f) = disk["a"][f]

\* C39 as stated: after overlapping operations that write the Meta, the Meta
\* holds the entry of every bundle an operation wrote an entry for, and the
\* registry ETag a registry refresh wrote.
C39_NoMetaUpdateLost ==
  AllDone =>
    \A p \in Processes :
      /\ output[p].wrote \subseteq Installed
      /\ output[p].wroteRegistry # "none" => MetaNow.manifestEtag = output[p].wroteRegistry

\* ------------------------------------------------ the compact index is current
\* C40 as stated: once an ensure or a refresh has ended, with or without an
\* error, every bundle with index.md on disk has a _compact.md that is the
\* index generated from the files now on disk.
C40_CompactNeverStale ==
  last.op \in {"ensure", "refreshInBackground", "refreshAll"} =>
    \A b \in Bundles :
      disk[b]["index.md"] # 0 => compact[b] = generateCompact([disk |-> disk], b)

====
